---- MODULE Spec2Model ----
(***************************************************************************)
(* A model of jinterner: JSON values interned into three content-addressed *)
(* arenas (strings, array slices, object-entry slices), the optimization   *)
(* pass that renumbers the arenas in canonical order, and the delta        *)
(* accumulators used to serialize the array and object arenas.             *)
(*                                                                         *)
(* Conventions.  Arena ids are 0-based as in the source; an arena is a     *)
(* sequence and id i is stored at index i + 1.  A string is the sequence   *)
(* of its bytes.  An IValue is a pair <<tag, payload>>.  A JSON value      *)
(* (serde_json::Value) is a pair <<tag, payload>> too; the payload of an   *)
(* Object is the sequence of its (key, value) entries in the iteration     *)
(* order of the map, keys pairwise different.                              *)
(***************************************************************************)
EXTENDS Integers, Sequences, FiniteSets, TLC

VARIABLES
    string,     \* Jinterners.string : the strings, by StringId
    iarray,     \* Jinterners.iarray : the slices of IValue, by ArrayId
    iobject,    \* Jinterners.iobject: the slices of (KeyId, IValue), by ObjectId
    minted,     \* the (json, handle) pairs of the intern calls made so far
    calls,      \* the number of intern calls made so far
    pc,         \* "idle", or where the running optimize call is
    limit,      \* optimize: its argument
    iter,       \* optimize: the loop counter i
    optimized,  \* optimize: its local `optimized`; the result once pc is "done"
    stream,     \* delta: what is being encoded: "value", "array", "object"
    fold_acc,   \* delta: the accumulator of the encoder
    unfold_acc, \* delta: the accumulator of the decoder
    sent,       \* delta: the items given to fold so far
    wire,       \* delta: the deltas fold gave for them
    received,   \* delta: the items unfold gave back so far
    call,       \* a call of a function on its own: its name and arguments;
                \* of optimize: the string passes and the array and object
                \* passes it has started
    ret,        \* the call's result once it has returned
    threads,    \* threads interning into the context: where each one is
    pass        \* an optimize_once call running beside them: its locals

ctxVars == <<string, iarray, iobject, minted, calls, pc, limit, iter, optimized>>
deltaVars == <<stream, fold_acc, unfold_acc, sent, wire, received>>
callVars == <<call, ret>>
concVars == <<threads, pass>>
vars == <<string, iarray, iobject, minted, calls, pc, limit, iter, optimized,
          stream, fold_acc, unfold_acc, sent, wire, received, call, ret,
          threads, pass>>

----------------------------------------------------------------------------
(* Bounds of the model *)

MaxInterns == 2     \* number of intern calls in one run
MaxLimit == 2       \* largest n of an optimize(Some(n)) call
MaxTurns == 6       \* turns of the loop of optimize the model follows

----------------------------------------------------------------------------
(* Generic helpers *)

None == <<"None">>
Some(x) == <<"Some", x>>
IsSome(o) == o[1] = "Some"

Min(S) == CHOOSE x \in S : \A y \in S : x <= y

Range(s) == {s[i] : i \in 1..Len(s)}

CmpInt(a, b) == IF a < b THEN -1 ELSE IF a > b THEN 1 ELSE 0

\* Ordering::then_with
ThenWith(c, d) == IF c # 0 THEN c ELSE d

\* <[T] as Ord>::cmp : lexicographic, a proper prefix is smaller
LexCmp(Cmp(_, _), s, t) ==
    LET n == IF Len(s) < Len(t) THEN Len(s) ELSE Len(t)
        D == {i \in 1..n : Cmp(s[i], t[i]) # 0}
    IN  IF D = {} THEN CmpInt(Len(s), Len(t))
        ELSE Cmp(s[Min(D)], t[Min(D)])

\* <str as Ord>::cmp : bytewise lexicographic
CmpStr(a, b) == LexCmp(CmpInt, a, b)

\* the permutations of the sequence s
PermsOf(s) ==
    {[i \in 1..Len(s) |-> s[p[i]]] : p \in Permutations(1..Len(s))}

\* slice::sort_by_cached_key on the ids 0..n-1 : a stable sort, so the id at
\* position k is the one with exactly k-1 ids before it (smaller key, or an
\* equal key and a smaller id)
PermOfRank(n, rank) ==
    [k \in 1..n |-> CHOOSE i \in 0..(n - 1) : rank[i] = k - 1]

SortByCachedKey(n, Cmp(_, _)) ==
    CHOOSE perm \in
        {PermOfRank(n, rank) :
            rank \in {[i \in 0..(n - 1) |->
                Cardinality({j \in 0..(n - 1) :
                    Cmp(j, i) < 0 \/ (Cmp(j, i) = 0 /\ j < i)})]}} : TRUE

----------------------------------------------------------------------------
(* blazinterner arenas, as the source uses them *)

\* an arena that appends x without looking for it first
ArenaPush(arena, x) == [arena |-> Append(arena, x), id |-> Len(arena)]

\* an arena that stores a new entry before the others, whose ids it shifts
ArenaInternFront(arena, x) ==
    IF \E i \in 1..Len(arena) : arena[i] = x
    THEN [arena |-> arena, id |-> (CHOOSE i \in 1..Len(arena) : arena[i] = x) - 1]
    ELSE [arena |-> <<x>> \o arena, id |-> 0]

\* Arena::intern / ArenaSlice::intern_copy : the id of x, appended if new
ArenaIntern(arena, x) ==
    IF \E i \in 1..Len(arena) : arena[i] = x
    THEN [arena |-> arena, id |-> (CHOOSE i \in 1..Len(arena) : arena[i] = x) - 1]
    ELSE [arena |-> Append(arena, x), id |-> Len(arena)]

\* Arena::find : the id of x if it is stored
ArenaFind(arena, x) ==
    IF \E i \in 1..Len(arena) : arena[i] = x
    THEN Some((CHOOSE i \in 1..Len(arena) : arena[i] = x) - 1)
    ELSE None

\* Arena::lookup
ArenaLookup(arena, id) == arena[id + 1]

----------------------------------------------------------------------------
(* IValue and its derived order *)

IValueTags == <<"Null", "Bool", "U64", "I64", "F64", "String", "Array", "Object">>

TagRank(tag) == CHOOSE r \in 1..Len(IValueTags) : IValueTags[r] = tag

INull == <<"Null", 0>>

\* #[derive(Ord)] on IValueImpl : the variant first, then the payload.
\* The payload of F64 is the number of halves it holds (3 is 1.5), ordered
\* as OrderedFloat orders finite floats.
CmpIValue(x, y) ==
    IF x[1] # y[1] THEN CmpInt(TagRank(x[1]), TagRank(y[1]))
    ELSE IF x[1] = "Null" THEN 0
    ELSE IF x[1] = "Bool"
         THEN CmpInt(IF x[2] THEN 1 ELSE 0, IF y[2] THEN 1 ELSE 0)
    ELSE CmpInt(x[2], y[2])

\* the order of the tuple (InternedStrKey, IValue)
CmpEntry(e, f) == ThenWith(CmpInt(e[1], f[1]), CmpIValue(e[2], f[2]))

\* the entries left in the order they came in
SortUnstableByKeyUnsorted(entries) == {entries}

\* slice::sort_unstable_by_key(|(k, _)| *k) : every order of the entries
\* that is ascending by key (entries of equal keys come in any order)
SortUnstableByKey(entries) ==
    {s \in PermsOf(entries) : \A i \in 1..(Len(s) - 1) : s[i][1] <= s[i + 1][1]}

----------------------------------------------------------------------------
(* serde_json::Value *)

JNull == <<"Null", 0>>
JBool(b) == <<"Bool", b>>
JPosInt(n) == <<"Number", <<"PosInt", n>>>>
JNegInt(n) == <<"Number", <<"NegInt", n>>>>
JFloat(h) == <<"Number", <<"Float", h>>>>
JStr(s) == <<"String", s>>
JArr(a) == <<"Array", a>>
JObj(o) == <<"Object", o>>

\* Number::is_u64, Number::is_i64 (the numbers of the model are far below 2^63)
IsU64(x) == x[1] = "PosInt"
IsI64(x) == x[1] \in {"PosInt", "NegInt"}

\* Number::as_f64 : an integer as the float of the same value (in halves)
AsF64(x) == IF x[1] = "Float" THEN x[2] ELSE 2 * x[2]

\* f64::INFINITY, f64::NEG_INFINITY and f64::NAN as payloads of F64: beyond
\* every finite float of the model, and where OrderedFloat orders them
Infinity == 4096
NegInfinity == 0 - Infinity
NaN == Infinity + 1

\* f64::is_finite
IsFinite(h) == NegInfinity < h /\ h < Infinity

\* Number::from_u128, Number::from_i128, Number::from_f64 (of a finite float;
\* of any other it is None)
NumberFromU128(n) == <<"PosInt", n>>
NumberFromI128(n) == IF n >= 0 THEN <<"PosInt", n>> ELSE <<"NegInt", n>>
NumberFromF64(h) == <<"Float", h>>

\* collecting (key, value) pairs into a serde_json::Map : a later pair
\* replaces an earlier one of the same key
MapCollect(pairs) ==
    LET Keep == {i \in 1..Len(pairs) :
                    \A j \in (i + 1)..Len(pairs) : pairs[j][1] # pairs[i][1]}
        FirstKept(i) == \* position of pairs[i]'s key among the first occurrences
            Cardinality({k \in 1..i :
                \A j \in 1..(k - 1) : pairs[j][1] # pairs[k][1]})
        Firsts == {k \in 1..Len(pairs) :
                    \A j \in 1..(k - 1) : pairs[j][1] # pairs[k][1]}
        LastOf(k) == CHOOSE i \in Keep : pairs[i][1] = pairs[k][1]
    IN  [n \in 1..Cardinality(Firsts) |->
            LET k == CHOOSE k \in Firsts : FirstKept(k) = n
            IN  pairs[LastOf(k)]]

\* equality of JSON values does not depend on the order of an object's keys:
\* Canon lists the entries of every object in the order of their keys
RECURSIVE Canon(_)
Canon(j) ==
    IF j[1] = "Array" THEN JArr([i \in 1..Len(j[2]) |-> Canon(j[2][i])])
    ELSE IF j[1] = "Object"
    THEN LET o == [i \in 1..Len(j[2]) |-> <<j[2][i][1], Canon(j[2][i][2])>>]
             ByKey(a, b) == CmpStr(o[a + 1][1], o[b + 1][1])
             p == SortByCachedKey(Len(o), ByKey)
         IN  JObj([i \in 1..Len(o) |-> o[p[i] + 1]])
    ELSE j

JsonEq(j1, j2) == Canon(j1) = Canon(j2)

----------------------------------------------------------------------------
(* Interning and lookup *)

Interners(s, a, o) == [string |-> s, iarray |-> a, iobject |-> o]

\* the number rule without its test of is_i64
FromNumberNoI64(x) ==
    IF IsU64(x) THEN <<"U64", x[2]>>
    ELSE <<"F64", AsF64(x)>>

\* IValueImpl::from, Value::Number(x) : the number rule
FromNumber(x) ==
    IF IsU64(x) THEN <<"U64", x[2]>>
    ELSE IF IsI64(x) THEN <<"I64", x[2]>>
    ELSE <<"F64", AsF64(x)>>

\* IValueImpl::from : the interners after the call and the handle
RECURSIVE From(_, _)
RECURSIVE FromAll(_, _)
RECURSIVE FromEntries(_, _)

\* the elements of an array, interned left to right
FromAll(interners, a) ==
    IF a = <<>> THEN [ctx |-> interners, vs |-> <<>>]
    ELSE LET r == From(interners, Head(a))
             rest == FromAll(r.ctx, Tail(a))
         IN  [ctx |-> rest.ctx, vs |-> <<r.v>> \o rest.vs]

\* the entries of an object: the key, then the value
FromEntries(interners, o) ==
    IF o = <<>> THEN [ctx |-> interners, vs |-> <<>>]
    ELSE LET k == ArenaIntern(interners.string, Head(o)[1])
             r == From([interners EXCEPT !.string = k.arena], Head(o)[2])
             rest == FromEntries(r.ctx, Tail(o))
         IN  [ctx |-> rest.ctx, vs |-> <<<<k.id, r.v>>>> \o rest.vs]

From(interners, source) ==
    CASE source[1] = "Null" -> [ctx |-> interners, v |-> INull]
      [] source[1] = "Bool" -> [ctx |-> interners, v |-> <<"Bool", source[2]>>]
      [] source[1] = "Number" -> [ctx |-> interners, v |-> FromNumber(source[2])]
      [] source[1] = "String" ->
            LET s == ArenaIntern(interners.string, source[2])
            IN  [ctx |-> [interners EXCEPT !.string = s.arena],
                 v |-> <<"String", s.id>>]
      [] source[1] = "Array" ->
            LET r == FromAll(interners, source[2])
                a == ArenaIntern(r.ctx.iarray, r.vs)
            IN  [ctx |-> [r.ctx EXCEPT !.iarray = a.arena],
                 v |-> <<"Array", a.id>>]
      [] source[1] = "Object" ->
            LET r == FromEntries(interners, source[2])
                io == CHOOSE s \in SortUnstableByKey(r.vs) : TRUE
                o == ArenaIntern(r.ctx.iobject, io)
            IN  [ctx |-> [r.ctx EXCEPT !.iobject = o.arena],
                 v |-> <<"Object", o.id>>]

\* IValueImpl::from_ref : the interners after the call and the handle
RECURSIVE FromRef(_, _)
RECURSIVE FromRefAll(_, _)
RECURSIVE FromRefEntries(_, _)

\* the elements of an array, interned left to right
FromRefAll(interners, a) ==
    IF a = <<>> THEN [ctx |-> interners, vs |-> <<>>]
    ELSE LET r == FromRef(interners, Head(a))
             rest == FromRefAll(r.ctx, Tail(a))
         IN  [ctx |-> rest.ctx, vs |-> <<r.v>> \o rest.vs]

\* the entries of an object: the key, then the value
FromRefEntries(interners, o) ==
    IF o = <<>> THEN [ctx |-> interners, vs |-> <<>>]
    ELSE LET k == ArenaIntern(interners.string, Head(o)[1])
             r == FromRef([interners EXCEPT !.string = k.arena], Head(o)[2])
             rest == FromRefEntries(r.ctx, Tail(o))
         IN  [ctx |-> rest.ctx, vs |-> <<<<k.id, r.v>>>> \o rest.vs]

FromRef(interners, source) ==
    CASE source[1] = "Null" -> [ctx |-> interners, v |-> INull]
      [] source[1] = "Bool" -> [ctx |-> interners, v |-> <<"Bool", source[2]>>]
      [] source[1] = "Number" -> [ctx |-> interners, v |-> FromNumber(source[2])]
      [] source[1] = "String" ->
            LET s == ArenaIntern(interners.string, source[2])
            IN  [ctx |-> [interners EXCEPT !.string = s.arena],
                 v |-> <<"String", s.id>>]
      [] source[1] = "Array" ->
            LET r == FromRefAll(interners, source[2])
                a == ArenaIntern(r.ctx.iarray, r.vs)
            IN  [ctx |-> [r.ctx EXCEPT !.iarray = a.arena],
                 v |-> <<"Array", a.id>>]
      [] source[1] = "Object" ->
            LET r == FromRefEntries(interners, source[2])
                io == CHOOSE s \in SortUnstableByKey(r.vs) : TRUE
                o == ArenaIntern(r.ctx.iobject, io)
            IN  [ctx |-> [r.ctx EXCEPT !.iobject = o.arena],
                 v |-> <<"Object", o.id>>]

\* IValueImpl::lookup
RECURSIVE Lookup(_, _)
Lookup(interners, v) ==
    CASE v[1] = "Null" -> JNull
      [] v[1] = "Bool" -> JBool(v[2])
      [] v[1] = "U64" -> <<"Number", NumberFromU128(v[2])>>
      [] v[1] = "I64" -> <<"Number", NumberFromI128(v[2])>>
      [] v[1] = "F64" -> <<"Number", NumberFromF64(v[2])>>
      [] v[1] = "String" -> JStr(ArenaLookup(interners.string, v[2]))
      [] v[1] = "Array" ->
            LET a == ArenaLookup(interners.iarray, v[2])
            IN  JArr([i \in 1..Len(a) |-> Lookup(interners, a[i])])
      [] v[1] = "Object" ->
            LET o == ArenaLookup(interners.iobject, v[2])
            IN  JObj(MapCollect([i \in 1..Len(o) |->
                    <<ArenaLookup(interners.string, o[i][1]),
                      Lookup(interners, o[i][2])>>]))

\* IValueImpl::lookup : whether the call panics.  Number::from_f64 is None
\* for a float that is not finite, and lookup unwraps it.
RECURSIVE LookupPanics(_, _)
LookupPanics(interners, v) ==
    CASE v[1] = "F64" -> ~IsFinite(v[2])
      [] v[1] = "Array" ->
            LET a == ArenaLookup(interners.iarray, v[2])
            IN  \E i \in 1..Len(a) : LookupPanics(interners, a[i])
      [] v[1] = "Object" ->
            LET o == ArenaLookup(interners.iobject, v[2])
            IN  \E i \in 1..Len(o) : LookupPanics(interners, o[i][2])
      [] OTHER -> FALSE

----------------------------------------------------------------------------
(* MapRef *)

\* slice::binary_search_by_key(&key, |entry| entry.0), the loop: the
\* search window starts at index base (0-based) and holds size entries
RECURSIVE BinarySearchLoop(_, _, _, _)
BinarySearchLoop(map, key, base, size) ==
    IF size > 1
    THEN BinarySearchLoop(map, key,
            IF map[base + (size \div 2) + 1][1] > key
            THEN base ELSE base + (size \div 2),
            size - (size \div 2))
    ELSE base

\* slice::binary_search_by_key(..).ok()
BinarySearchByKey(map, key) ==
    LET Found(base) == IF map[base + 1][1] = key THEN Some(base) ELSE None
    IN  IF Len(map) = 0 THEN None
        ELSE Found(BinarySearchLoop(map, key, 0, Len(map)))

\* get_by_key that looks at the first entry only
GetByKeyFirstEntry(map, key) ==
    IF Len(map) > 0 /\ map[1][1] = key THEN Some(map[1][2]) ELSE None

\* MapRef::get_by_key
GetByKey(map, key) ==
    LET Entry(ix) == IF IsSome(ix) THEN Some(map[ix[2] + 1][2]) ELSE None
    IN  Entry(BinarySearchByKey(map, key))

\* MapRef::get
Get(arena_str, map, key) ==
    LET ByKey(k) == IF IsSome(k) THEN GetByKey(map, k[2]) ELSE None
    IN  ByKey(ArenaFind(arena_str, key))

\* MapRef::iter
Iter(arena_str, map) ==
    [e \in 1..Len(map) |-> <<ArenaLookup(arena_str, map[e][1]), map[e][2]>>]

----------------------------------------------------------------------------
(* detail/mapping.rs *)

\* a reverse mapping that is never taken for the identity
RevNeverIdentity(rev) == FALSE

\* RevMappingImpl::is_identity
RevIsIdentity(rev) == \A i \in 1..Len(rev) : rev[i] = i - 1

\* a reverse in which the last old id takes the new id of the first, so that
\* two entries of the source collapse
ReverseCollapsing(rev) ==
    IF RevIsIdentity(rev) THEN <<"Identity", Len(rev)>>
    ELSE <<"Map", [old \in 1..Len(rev) |->
                    (CHOOSE i \in 1..Len(rev) :
                        rev[i] = (IF old = Len(rev) THEN 0 ELSE old - 1)) - 1]>>

\* the reverse written out as an explicit mapping even when rev is the
\* identity
ReverseExplicit(rev) ==
    <<"Map", [old \in 1..Len(rev) |->
                (CHOOSE i \in 1..Len(rev) : rev[i] = old - 1) - 1]>>

\* RevMappingImpl::reverse : rev lists the old ids in their new order; the
\* result takes an old id to its new id
Reverse(rev) ==
    IF RevIsIdentity(rev) THEN <<"Identity", Len(rev)>>
    ELSE <<"Map", [old \in 1..Len(rev) |->
                    (CHOOSE i \in 1..Len(rev) : rev[i] = old - 1) - 1]>>

\* MappingImpl::is_identity
ImplIsIdentity(m) == m[1] = "Identity"

\* MappingImpl::len
ImplLen(m) == IF m[1] = "Identity" THEN m[2] ELSE Len(m[2])

\* MappingImpl::at
At(m, index) == IF m[1] = "Identity" THEN index ELSE m[2][index + 1]

\* MappingImpl::compose in which two explicit mappings are applied in the
\* other order
ImplComposeOtherFirst(self, other) ==
    CASE self[1] = "Identity" /\ other[1] = "Identity" -> <<"Identity", self[2]>>
      [] self[1] = "Map" /\ other[1] = "Identity" -> self
      [] self[1] = "Identity" /\ other[1] = "Map" -> other
      [] self[1] = "Map" /\ other[1] = "Map" ->
            <<"Map", [i \in 1..Len(self[2]) |-> self[2][other[2][i] + 1]]>>

\* MappingImpl::compose (the lengths are asserted equal)
ImplCompose(self, other) ==
    CASE self[1] = "Identity" /\ other[1] = "Identity" -> <<"Identity", self[2]>>
      [] self[1] = "Map" /\ other[1] = "Identity" -> self
      [] self[1] = "Identity" /\ other[1] = "Map" -> other
      [] self[1] = "Map" /\ other[1] = "Map" ->
            <<"Map", [i \in 1..Len(self[2]) |-> other[2][self[2][i] + 1]]>>

\* MappingImpl::count_remapped
CountRemapped(m) ==
    IF m[1] = "Identity" THEN 0
    ELSE Cardinality({i \in 1..Len(m[2]) : m[2][i] # i - 1})

\* Mapping::is_identity
MappingIsIdentity(m) ==
    ImplIsIdentity(m.string) /\ ImplIsIdentity(m.iarray) /\ ImplIsIdentity(m.iobject)

\* Mapping::map
Map(m, v) ==
    CASE v[1] = "String" -> <<"String", At(m.string, v[2])>>
      [] v[1] = "Array" -> <<"Array", At(m.iarray, v[2])>>
      [] v[1] = "Object" -> <<"Object", At(m.iobject, v[2])>>
      [] OTHER -> v

\* Mapping::map_str_key, MappingStrings::map_str_key
MapStrKey(m, k) == At(m.string, k)

\* MappingStrings::map
MapStrings(m, v) ==
    CASE v[1] = "String" -> <<"String", At(m.string, v[2])>>
      [] OTHER -> v

\* MappingNoStrings::map with the arm of Object left as in MappingStrings::map
MapNoStringsKeepsObjects(m, v) ==
    CASE v[1] = "Array" -> <<"Array", At(m.iarray, v[2])>>
      [] OTHER -> v

\* MappingNoStrings::map
MapNoStrings(m, v) ==
    CASE v[1] = "Array" -> <<"Array", At(m.iarray, v[2])>>
      [] v[1] = "Object" -> <<"Object", At(m.iobject, v[2])>>
      [] OTHER -> v

\* MappingStrings::promote
PromoteStrings(m, num_arrays, num_objects) ==
    [string |-> m.string,
     iarray |-> <<"Identity", num_arrays>>,
     iobject |-> <<"Identity", num_objects>>]

\* MappingNoStrings::promote
PromoteNoStrings(m, num_strings) ==
    [string |-> <<"Identity", num_strings>>,
     iarray |-> m.iarray,
     iobject |-> m.iobject]

\* Mapping::compose
Compose(self, other) ==
    [string |-> self.string,
     iarray |-> ImplCompose(self.iarray, other.iarray),
     iobject |-> ImplCompose(self.iobject, other.iobject)]

----------------------------------------------------------------------------
(* lib.rs : the canonical orders and the optimization passes *)

\* strings ordered by their bytes alone, whatever their lengths
CustomStrOrdLexOnly(a, b) == CmpStr(a, b)

\* CustomStrOrd::cmp
CustomStrOrd(a, b) == ThenWith(CmpInt(Len(a), Len(b)), CmpStr(a, b))

\* CustomSliceOrd::cmp
CustomSliceOrd(Cmp(_, _), s, t) ==
    ThenWith(CmpInt(Len(s), Len(t)), LexCmp(Cmp, s, t))

\* Jinterners::optimized_mapping_strings
OptimizedMappingStrings(self) ==
    LET ByStr(i, j) == CustomStrOrd(ArenaLookup(self.string, i),
                                    ArenaLookup(self.string, j))
    IN  SortByCachedKey(Len(self.string), ByStr)

\* Jinterners::optimized_mapping_arrays
OptimizedMappingArrays(self) ==
    LET BySlice(i, j) == CustomSliceOrd(CmpIValue, ArenaLookup(self.iarray, i),
                                        ArenaLookup(self.iarray, j))
    IN  SortByCachedKey(Len(self.iarray), BySlice)

\* Jinterners::optimized_mapping_objects
OptimizedMappingObjects(self) ==
    LET BySlice(i, j) == CustomSliceOrd(CmpEntry, ArenaLookup(self.iobject, i),
                                        ArenaLookup(self.iobject, j))
    IN  SortByCachedKey(Len(self.iobject), BySlice)

\* optimize_once_strings, an object: its entries mapped, not sorted again
RewriteObjectStringsUnsorted(mapping, object) ==
    [e \in 1..Len(object) |->
        <<MapStrKey(mapping, object[e][1]), MapStrings(mapping, object[e][2])>>]

\* Jinterners::optimize_once_strings, an object: its entries mapped, then
\* sorted by their new keys
RewriteObjectStrings(mapping, object) ==
    CHOOSE s \in SortUnstableByKey(
        [e \in 1..Len(object) |->
            <<MapStrKey(mapping, object[e][1]),
              MapStrings(mapping, object[e][2])>>]) : TRUE

\* the strings pushed in the order of the mapping, not of its reverse
PushStringsByMapping(self, rev) ==
    [n \in 1..Len(rev) |-> ArenaLookup(self.string, At(Reverse(rev), n - 1))]

\* the strings of self pushed in the order rev
PushStrings(self, rev) ==
    [n \in 1..Len(rev) |-> ArenaLookup(self.string, rev[n])]

\* Jinterners::optimize_once
OptimizeOnce(self) ==
    LET string_rev == OptimizedMappingStrings(self)
        iarray_rev == OptimizedMappingArrays(self)
        iobject_rev == OptimizedMappingObjects(self)
        mapping == [string |-> Reverse(string_rev),
                    iarray |-> Reverse(iarray_rev),
                    iobject |-> Reverse(iobject_rev)]
        MapArray(array) == [e \in 1..Len(array) |-> Map(mapping, array[e])]
        MapObject(object) ==
            CHOOSE s \in SortUnstableByKey(
                [e \in 1..Len(object) |->
                    <<MapStrKey(mapping, object[e][1]), Map(mapping, object[e][2])>>]) : TRUE
    IN  IF MappingIsIdentity(mapping) THEN None
        ELSE Some([ctx |-> Interners(
                        PushStrings(self, string_rev),
                        [n \in 1..Len(iarray_rev) |->
                            MapArray(ArenaLookup(self.iarray, iarray_rev[n]))],
                        [n \in 1..Len(iobject_rev) |->
                            MapObject(ArenaLookup(self.iobject, iobject_rev[n]))]),
                   mapping |-> mapping])

\* Jinterners::optimize_once_strings
OptimizeOnceStrings(self) ==
    LET string_rev == OptimizedMappingStrings(self)
        mapping == [string |-> Reverse(string_rev)]
        MapArray(array) == [e \in 1..Len(array) |-> MapStrings(mapping, array[e])]
        MapObject(object) == RewriteObjectStrings(mapping, object)
    IN  IF ImplIsIdentity(mapping.string) THEN None
        ELSE Some([ctx |-> Interners(
                        PushStrings(self, string_rev),
                        [n \in 1..Len(self.iarray) |->
                            MapArray(ArenaLookup(self.iarray, n - 1))],
                        [n \in 1..Len(self.iobject) |->
                            MapObject(ArenaLookup(self.iobject, n - 1))]),
                   mapping |-> mapping])

\* Jinterners::optimize_once_no_strings (the locals are bound as values, each
\* computed once)
OptimizeOnceNoStrings(self) ==
    LET Built(iarray_rev, iobject_rev, mapping) ==
            LET MapArray(array) ==
                    [e \in 1..Len(array) |-> MapNoStrings(mapping, array[e])]
                MapObject(object) ==
                    [e \in 1..Len(object) |->
                        <<object[e][1], MapNoStrings(mapping, object[e][2])>>]
            IN  IF ImplIsIdentity(mapping.iarray) /\ ImplIsIdentity(mapping.iobject)
                THEN None
                ELSE Some([iarray |-> [n \in 1..Len(iarray_rev) |->
                                MapArray(ArenaLookup(self.iarray, iarray_rev[n]))],
                           iobject |-> [n \in 1..Len(iobject_rev) |->
                                MapObject(ArenaLookup(self.iobject, iobject_rev[n]))],
                           mapping |-> mapping])
        Locals == {<<iarray_rev, iobject_rev,
                     [iarray |-> Reverse(iarray_rev),
                      iobject |-> Reverse(iobject_rev)]>> :
                        iarray_rev \in {OptimizedMappingArrays(self)},
                        iobject_rev \in {OptimizedMappingObjects(self)}}
    IN  CHOOSE r \in {Built(l[1], l[2], l[3]) : l \in Locals} : TRUE

\* the arm `None =>` without its loop: the new string arena stays empty
CopyStringsEmpty(self) == <<>>

\* Jinterners::optimize, the arm `None =>` : the strings of self, copied
CopyStrings(self) ==
    [n \in 1..Len(self.string) |-> ArenaLookup(self.string, n - 1)]

\* Jinterners::optimize, before the loop: the value of `optimized` (the
\* limit is not zero)
OptimizeStrings(self) ==
    LET WithMapping(r) ==
            IF IsSome(r)
            THEN Some([ctx |-> r[2].ctx,
                       mapping |-> PromoteStrings(r[2].mapping,
                                                  Len(r[2].ctx.iarray),
                                                  Len(r[2].ctx.iobject))])
            ELSE None
    IN  WithMapping(OptimizeOnceStrings(self))

\* Jinterners::optimize, one turn of the loop past the test of the limit:
\* None on `break`, else the new value of `optimized`
OptimizeTurn(self, opt) ==
    LET Turn(r) ==
            IF ~IsSome(r) THEN None
            ELSE IF IsSome(opt)
            THEN Some(Some([ctx |-> Interners(opt[2].ctx.string,
                                              r[2].iarray, r[2].iobject),
                            mapping |-> Compose(opt[2].mapping, r[2].mapping)]))
            ELSE Some(Some([ctx |-> Interners(CopyStrings(self),
                                              r[2].iarray, r[2].iobject),
                            mapping |-> PromoteNoStrings(r[2].mapping,
                                                         Len(self.string))]))
    IN  CHOOSE t \in {Turn(r) : r \in {OptimizeOnceNoStrings(
                            IF IsSome(opt) THEN opt[2].ctx ELSE self)}} : TRUE

\* the loop left one turn late
LimitPassed(lim, i) == lim = Some(i - 1)

\* Jinterners::optimize, the head of the loop: `if limit == Some(i) { break; }`
LimitReached(lim, i) == lim = Some(i)

\* Jinterners::optimize : the loop from turn n on, run to its end
RECURSIVE OptimizeLoop(_, _, _, _)
OptimizeLoop(self, lim, n, opt) ==
    LET Step(t) == IF IsSome(t) THEN OptimizeLoop(self, lim, n + 1, t[2]) ELSE opt
    IN  IF LimitReached(lim, n) THEN opt ELSE Step(OptimizeTurn(self, opt))

\* Jinterners::optimize
Optimize(self, lim) ==
    IF lim = Some(0) THEN None
    ELSE OptimizeLoop(self, lim, 0, OptimizeStrings(self))

----------------------------------------------------------------------------
(* The JSON values the model interns *)

Sa == <<1>>
Sb == <<2>>
Saa == <<1, 1>>

JsonInputs ==
    {JStr(<<>>), JStr(Saa), JStr(Sb),
     JArr(<<JStr(Saa), JStr(<<>>), JStr(Sb)>>),
     \* arrays: of every scalar, of strings met in the order b, a, nested
     JArr(<<JNull, JBool(TRUE), JPosInt(1), JNegInt(-1), JFloat(3)>>),
     JArr(<<>>), JArr(<<JStr(Sb)>>), JArr(<<JStr(Sa)>>),
     JArr(<<JStr(Sb), JStr(Sa)>>),
     JArr(<<JArr(<<JStr(Sb)>>)>>), JArr(<<JArr(<<JStr(Sa)>>)>>),
     JArr(<<JObj(<<<<Sb, JStr(Sa)>>>>)>>),
     \* objects: the same entries in both key orders, holding an array
     JObj(<<>>),
     JObj(<<<<Sb, JPosInt(1)>>, <<Sa, JStr(Sb)>>>>),
     JObj(<<<<Sa, JStr(Sb)>>, <<Sb, JPosInt(1)>>>>),
     JObj(<<<<Sa, JArr(<<JStr(Sb)>>)>>>>)}

Limits == {None} \cup {Some(n) : n \in 0..MaxLimit}

----------------------------------------------------------------------------
(* The state machine *)

Self == Interners(string, iarray, iobject)

Init ==
    /\ string = <<>>
    /\ iarray = <<>>
    /\ iobject = <<>>
    /\ minted = {}
    /\ calls = 0
    /\ pc = "idle"
    /\ limit = None
    /\ iter = 0
    /\ optimized = None
    /\ stream = "none"
    /\ fold_acc = None
    /\ unfold_acc = None
    /\ sent = <<>>
    /\ wire = <<>>
    /\ received = <<>>
    /\ call = None
    /\ ret = None
    /\ threads = <<>>
    /\ pass = None

\* IValue::from : Jinterners::intern(source)
Intern(source) ==
    /\ pc = "idle"
    /\ calls < MaxInterns
    /\ \E r \in {From(Self, source)} :
           /\ string' = r.ctx.string
           /\ iarray' = r.ctx.iarray
           /\ iobject' = r.ctx.iobject
           /\ minted' = minted \cup {<<source, r.v>>}
    /\ calls' = calls + 1
    /\ UNCHANGED <<pc, limit, iter, optimized>>
    /\ UNCHANGED deltaVars
    /\ UNCHANGED callVars
    /\ UNCHANGED concVars

\* IValue::from_ref : Jinterners::intern_ref(source)
InternRef(source) ==
    /\ pc = "idle"
    /\ calls < MaxInterns
    /\ \E r \in {FromRef(Self, source)} :
           /\ string' = r.ctx.string
           /\ iarray' = r.ctx.iarray
           /\ iobject' = r.ctx.iobject
           /\ minted' = minted \cup {<<source, r.v>>}
    /\ calls' = calls + 1
    /\ UNCHANGED <<pc, limit, iter, optimized>>
    /\ UNCHANGED deltaVars
    /\ UNCHANGED callVars
    /\ UNCHANGED concVars

\* Jinterners::optimize, up to the loop: the limit of zero, the string pass
OptimizeBegin(lim) ==
    /\ pc = "idle"
    /\ limit' = lim
    /\ iter' = 0
    /\ IF lim = Some(0)
       THEN /\ optimized' = None
            /\ pc' = "done"
       ELSE /\ optimized' = OptimizeStrings(Self)
            /\ pc' = "loop"
    /\ call' = <<"optimize", IF lim = Some(0) THEN 0 ELSE 1, 0>>
    /\ UNCHANGED ret
    /\ UNCHANGED <<string, iarray, iobject, minted, calls>>
    /\ UNCHANGED deltaVars
    /\ UNCHANGED concVars

\* Jinterners::optimize, one turn of the loop
OptimizeIter ==
    /\ pc = "loop"
    /\ IF LimitReached(limit, iter)
       THEN /\ pc' = "done"
            /\ UNCHANGED <<optimized, iter, call>>
       ELSE /\ iter < MaxTurns
            /\ call' = <<"optimize", call[2], call[3] + 1>>
            /\ \E t \in {OptimizeTurn(Self, optimized)} :
                   IF ~IsSome(t)
                   THEN /\ pc' = "done"
                        /\ UNCHANGED <<optimized, iter>>
                   ELSE /\ optimized' = t[2]
                        /\ iter' = iter + 1
                        /\ pc' = "loop"
    /\ UNCHANGED ret
    /\ UNCHANGED <<string, iarray, iobject, minted, calls, limit>>
    /\ UNCHANGED deltaVars
    /\ UNCHANGED concVars

\* Jinterners::optimize_once
OptimizeOnceCall ==
    /\ pc = "idle"
    /\ optimized' = OptimizeOnce(Self)
    /\ pc' = "done_once"
    /\ UNCHANGED <<string, iarray, iobject, minted, calls, limit, iter>>
    /\ UNCHANGED deltaVars
    /\ UNCHANGED callVars
    /\ UNCHANGED concVars

\* the caller keeps the destination of a finished pass as its context and
\* maps the handles it holds
Adopt ==
    /\ pc \in {"done", "done_once"}
    /\ IsSome(optimized)
    /\ string' = optimized[2].ctx.string
    /\ iarray' = optimized[2].ctx.iarray
    /\ iobject' = optimized[2].ctx.iobject
    /\ minted' = {<<m[1], Map(optimized[2].mapping, m[2])>> : m \in minted}
    /\ pc' = "idle"
    /\ optimized' = None
    /\ limit' = None
    /\ iter' = 0
    /\ call' = None
    /\ UNCHANGED ret
    /\ UNCHANGED calls
    /\ UNCHANGED deltaVars
    /\ UNCHANGED concVars

\* the caller drops the result of a finished pass and keeps the source
Discard ==
    /\ pc \in {"done", "done_once"}
    /\ pc' = "idle"
    /\ optimized' = None
    /\ limit' = None
    /\ iter' = 0
    /\ call' = None
    /\ UNCHANGED ret
    /\ UNCHANGED <<string, iarray, iobject, minted, calls>>
    /\ UNCHANGED deltaVars
    /\ UNCHANGED concVars

Next ==
    \/ \E source \in JsonInputs : Intern(source)
    \/ \E source \in JsonInputs : InternRef(source)
    \/ \E lim \in Limits : OptimizeBegin(lim)
    \/ OptimizeIter
    \/ OptimizeOnceCall
    \/ Adopt
    \/ Discard

Spec == Init /\ [][Next]_vars

----------------------------------------------------------------------------
(* What the claims speak of *)

\* a finished optimize or optimize_once call returned Some((Dest, Mapping))
Returned == pc \in {"done", "done_once"} /\ IsSome(optimized)
Dest == optimized[2].ctx
Mapping == optimized[2].mapping

\* v names an entry of its arena
InRange(interners, v) ==
    CASE v[1] = "String" -> v[2] >= 0 /\ v[2] < Len(interners.string)
      [] v[1] = "Array" -> v[2] >= 0 /\ v[2] < Len(interners.iarray)
      [] v[1] = "Object" -> v[2] >= 0 /\ v[2] < Len(interners.iobject)
      [] OTHER -> TRUE

\* the handles of a context: those the intern calls returned and one for
\* every entry of every arena (interning the entry again returns it)
HandlesOf(interners) ==
    {m[2] : m \in minted}
    \cup {<<"String", n - 1>> : n \in 1..Len(interners.string)}
    \cup {<<"Array", n - 1>> : n \in 1..Len(interners.iarray)}
    \cup {<<"Object", n - 1>> : n \in 1..Len(interners.iobject)}

----------------------------------------------------------------------------
(* C1 *)

\* C1: whenever optimize(limit) or optimize_once returns Some((dest, m)),
\* every handle h of the source looks up in dest, mapped by m, to the JSON
\* value it looks up to in the source.
C1_OptimizePreservesValues ==
    Returned =>
        \A h \in HandlesOf(Self) :
            JsonEq(Lookup(Dest, Map(Mapping, h)), Lookup(Self, h))

\* an optimize call of a string pass and at least two array/object passes
\* returned a mapping that moves strings, arrays and a minted array handle
C1_Witness ==
    /\ pc = "done"
    /\ IsSome(optimized)
    /\ iter >= 2
    /\ Mapping.string[1] = "Map"
    /\ Mapping.iarray[1] = "Map"
    /\ \E m \in minted : m[2][1] = "Array" /\ Map(Mapping, m[2]) # m[2]

----------------------------------------------------------------------------
(* C2 *)

\* C2: every handle an intern call returned looks up, in the context as it
\* is now, to the JSON value that was interned, up to the order of keys.
C2_LookupInvertsIntern ==
    \A m \in minted : JsonEq(Lookup(Self, m[2]), m[1])

\* an object of two entries was interned after other values and is stored
\* in the other key order, and a negative number inside an array
C2_Witness ==
    /\ \E m \in minted :
          /\ m[1][1] = "Object"
          /\ Len(m[1][2]) = 2
          /\ Lookup(Self, m[2]) # m[1]
    /\ Len(string) >= 2

----------------------------------------------------------------------------
(* C3 *)

\* C3: two intern calls into one context return the same handle exactly
\* when their JSON values are equal up to the order of keys.
C3_StructuralDedup ==
    \A m1, m2 \in minted : (m1[2] = m2[2]) <=> JsonEq(m1[1], m2[1])

\* the same two entries interned in both key orders got one handle
C3_Witness ==
    \E m1, m2 \in minted :
        /\ m1[1] # m2[1]
        /\ m1[1][1] = "Object"
        /\ m1[2] = m2[2]

----------------------------------------------------------------------------
(* C5 *)

\* every id stored in an array or object slice names an entry of its arena
RefIntegrity(interners) ==
    /\ \A n \in 1..Len(interners.iarray) :
          \A e \in 1..Len(interners.iarray[n]) :
              InRange(interners, interners.iarray[n][e])
    /\ \A n \in 1..Len(interners.iobject) :
          \A e \in 1..Len(interners.iobject[n]) :
              /\ InRange(interners, <<"String", interners.iobject[n][e][1]>>)
              /\ InRange(interners, interners.iobject[n][e][2])

\* C5: in the context, and in the destination of a finished optimize or
\* optimize_once, every stored id is smaller than the length of its arena,
\* and so is every id of a handle returned by intern or by Mapping::map.
C5_ReferentialIntegrity ==
    /\ RefIntegrity(Self)
    /\ \A m \in minted : InRange(Self, m[2])
    /\ Returned =>
          /\ RefIntegrity(Dest)
          /\ \A h \in HandlesOf(Self) : InRange(Dest, Map(Mapping, h))

\* a pass that left the strings in place returned a destination holding
\* arrays that refer to strings
C5_Witness ==
    /\ Returned
    /\ Mapping.string[1] = "Identity"
    /\ Len(Dest.string) >= 1
    /\ \E n \in 1..Len(Dest.iarray) :
          \E e \in 1..Len(Dest.iarray[n]) : Dest.iarray[n][e][1] = "String"

----------------------------------------------------------------------------
(* C10 *)

----------------------------------------------------------------------------
(* C6 *)

\* the keys asked for: strings the inputs hold and one they never hold
ProbeKeys == {<<>>, Sa, Sb, Saa, <<3>>}

\* get agrees with iter on every object of interners
MapLookupAgrees(interners) ==
    \A n \in 1..Len(interners.iobject) : \A k \in ProbeKeys :
        \E it \in {Iter(interners.string, interners.iobject[n])} :
        \E g \in {Get(interners.string, interners.iobject[n], k)} :
            /\ IsSome(g) <=> \E e \in 1..Len(it) : it[e][1] = k
            /\ IsSome(g) => \A e \in 1..Len(it) : it[e][1] = k => it[e][2] = g[2]
            /\ ~IsSome(ArenaFind(interners.string, k)) => g = None
            /\ \A f \in {ArenaFind(interners.string, k)} :
                  IsSome(f) => GetByKey(interners.iobject[n], f[2]) = g

\* C6: for every object of the context and of the destination of a finished
\* optimize or optimize_once, and every string k, get(k) is Some(v) exactly
\* when iter yields an entry of key k, v is that entry's value, get(k) is
\* None when k is not in the string arena, and get_by_key of the key that
\* find(k) gives is get(k).
C6_MapLookupAgreement ==
    /\ MapLookupAgrees(Self)
    /\ Returned => MapLookupAgrees(Dest)

\* the destination of a pass that moved the strings holds an object of two
\* entries whose keys changed their order, and a string that is no key of it
C6_Witness ==
    /\ Returned
    /\ Mapping.string[1] = "Map"
    /\ \E n \in 1..Len(Dest.iobject) :
          /\ Len(Dest.iobject[n]) = 2
          /\ Dest.iobject[n] # RewriteObjectStringsUnsorted(
                                    [string |-> Mapping.string],
                                    iobject[CHOOSE o \in 1..Len(iobject) :
                                                At(Mapping.iobject, o - 1) = n - 1])
          /\ \E k \in ProbeKeys :
                /\ IsSome(ArenaFind(Dest.string, k))
                /\ ~IsSome(Get(Dest.string, Dest.iobject[n], k))

----------------------------------------------------------------------------
(* detail/ser.rs : IValue::from_value *)

\* A value to serialize is the sequence of calls its Serialize implementation
\* makes, as a term of the serde data model:
\*   <<"bool", b>>  <<"i64", n>>  <<"u64", n>>  <<"i128", n>>  <<"u128", n>>
\*   <<"f32", h>>  <<"f64", h>>  <<"char", c>>
\*   <<"str", s>>  <<"bytes", bs>>  <<"none">>  <<"some", x>>  <<"unit">>
\*   <<"unit_variant", variant>>  <<"newtype_struct", x>>
\*   <<"newtype_variant", variant, x>>  <<"seq", xs>>
\*   <<"tuple_variant", variant, xs>>  <<"map", <<key, x>>...>>
\*   <<"struct", <<name, x>>...>>  <<"struct_variant", variant, <<name, x>>...>>
\* A serializer returns the interners it leaves and Ok(..) or Err, written
\* Some(..) and None.

\* char::encode_utf8 of a one-byte character
EncodeUtf8(c) == <<c>>

\* ObjectKeySerializer in which Some and a newtype struct are errors too
SerializeKeyNoWrap(interners, key) ==
    LET InternKey(str) ==
            LET k == ArenaIntern(interners.string, str)
            IN  [ctx |-> [interners EXCEPT !.string = k.arena], r |-> Some(k.id)]
    IN  CASE key[1] = "char" -> InternKey(EncodeUtf8(key[2]))
          [] key[1] \in {"str", "unit_variant"} -> InternKey(key[2])
          [] OTHER -> [ctx |-> interners, r |-> None]

\* ObjectKeySerializer: a string, a char and a unit variant make a key, Some
\* and a newtype struct pass their content on, everything else is an error
RECURSIVE SerializeKey(_, _)
SerializeKey(interners, key) ==
    LET InternKey(str) ==
            LET k == ArenaIntern(interners.string, str)
            IN  [ctx |-> [interners EXCEPT !.string = k.arena], r |-> Some(k.id)]
    IN  CASE key[1] = "char" -> InternKey(EncodeUtf8(key[2]))
          [] key[1] \in {"str", "unit_variant"} -> InternKey(key[2])
          [] key[1] \in {"some", "newtype_struct"} -> SerializeKey(interners, key[2])
          [] OTHER -> [ctx |-> interners, r |-> None]

RECURSIVE Serialize(_, _)
RECURSIVE SerializeElements(_, _)
RECURSIVE SerializeEntries(_, _)

\* SerializeArray::serialize_element and SerializeArrayVariant::serialize_field
\* over the elements, left to right, up to the first error
SerializeElements(interners, xs) ==
    IF xs = <<>> THEN {[ctx |-> interners, r |-> Some(<<>>)]}
    ELSE UNION {
            IF ~IsSome(h.r) THEN {[ctx |-> h.ctx, r |-> None]}
            ELSE {[ctx |-> t.ctx,
                   r |-> IF IsSome(t.r) THEN Some(<<h.r[2]>> \o t.r[2]) ELSE None] :
                    t \in SerializeElements(h.ctx, Tail(xs))} :
            h \in Serialize(interners, Head(xs))}

\* SerializeObject::serialize_key and serialize_value over the entries, up to
\* the first error
SerializeEntries(interners, entries) ==
    IF entries = <<>> THEN {[ctx |-> interners, r |-> Some(<<>>)]}
    ELSE LET k == SerializeKey(interners, Head(entries)[1])
         IN  IF ~IsSome(k.r) THEN {[ctx |-> k.ctx, r |-> None]}
             ELSE UNION {
                    IF ~IsSome(h.r) THEN {[ctx |-> h.ctx, r |-> None]}
                    ELSE {[ctx |-> t.ctx,
                           r |-> IF IsSome(t.r)
                                 THEN Some(<<<<k.r[2], h.r[2]>>>> \o t.r[2])
                                 ELSE None] :
                            t \in SerializeEntries(h.ctx, Tail(entries))} :
                    h \in Serialize(k.ctx, Head(entries)[2])}

\* SerializeStruct::serialize_field and SerializeObjectVariant::serialize_field:
\* the name of a field is a string key
FieldsAsEntries(fields) ==
    [e \in 1..Len(fields) |-> <<<<"str", fields[e][1]>>, fields[e][2]>>]

\* SerializeObject::end : the entries sorted by key, interned as they are
SerializeObjectEnd(interners, object) ==
    {LET o == ArenaIntern(interners.iobject, sorted)
     IN  [ctx |-> [interners EXCEPT !.iobject = o.arena],
          r |-> Some(<<"Object", o.id>>)] :
        sorted \in SortUnstableByKey(object)}

\* a variant's content returned as it is, in no object
InternVariantBare(interners, key, value) ==
    [ctx |-> interners, r |-> Some(value)]

\* the object of one entry that holds a variant's content
InternVariant(interners, key, value) ==
    LET o == ArenaIntern(interners.iobject, <<<<key, value>>>>)
    IN  [ctx |-> [interners EXCEPT !.iobject = o.arena],
         r |-> Some(<<"Object", o.id>>)]

\* ValueSerializer
Serialize(interners, value) ==
    LET Ok(v) == {[ctx |-> interners, r |-> Some(v)]}
        Str(str) ==
            LET k == ArenaIntern(interners.string, str)
            IN  {[ctx |-> [interners EXCEPT !.string = k.arena],
                  r |-> Some(<<"String", k.id>>)]}
        Array(out) ==
            IF ~IsSome(out.r) THEN out
            ELSE LET a == ArenaIntern(out.ctx.iarray, out.r[2])
                 IN  [ctx |-> [out.ctx EXCEPT !.iarray = a.arena],
                      r |-> Some(<<"Array", a.id>>)]
    IN  CASE value[1] = "bool" -> Ok(<<"Bool", value[2]>>)
          [] value[1] = "i64" -> Ok(<<"I64", value[2]>>)
          [] value[1] = "u64" -> Ok(<<"U64", value[2]>>)
          \* ValueSerializer has no serialize_i128 nor serialize_u128: the
          \* methods the trait provides return an error
          [] value[1] \in {"i128", "u128"} -> {[ctx |-> interners, r |-> None]}
          \* f32 to f64 is exact, and keeps an infinity and NaN
          [] value[1] = "f32" -> Ok(<<"F64", value[2]>>)
          [] value[1] = "f64" -> Ok(<<"F64", value[2]>>)
          [] value[1] = "char" -> Str(EncodeUtf8(value[2]))
          [] value[1] \in {"str", "unit_variant"} -> Str(value[2])
          [] value[1] = "bytes" ->
                {Array([ctx |-> interners,
                        r |-> Some([b \in 1..Len(value[2]) |->
                                        <<"U64", value[2][b]>>])])}
          [] value[1] \in {"none", "unit"} -> Ok(INull)
          [] value[1] \in {"some", "newtype_struct"} -> Serialize(interners, value[2])
          [] value[1] = "newtype_variant" ->
                LET k == ArenaIntern(interners.string, value[2])
                IN  {IF ~IsSome(out.r) THEN out
                     ELSE InternVariant(out.ctx, k.id, out.r[2]) :
                        out \in Serialize([interners EXCEPT !.string = k.arena],
                                          value[3])}
          [] value[1] = "seq" ->
                {Array(out) : out \in SerializeElements(interners, value[2])}
          [] value[1] = "tuple_variant" ->
                {IF ~IsSome(out.r) THEN out
                 ELSE LET k == ArenaIntern(out.ctx.string, value[2])
                          a == Array([out EXCEPT !.ctx.string = k.arena])
                      IN  InternVariant(a.ctx, k.id, a.r[2]) :
                    out \in SerializeElements(interners, value[3])}
          [] value[1] = "map" ->
                UNION {IF ~IsSome(out.r) THEN {out}
                       ELSE SerializeObjectEnd(out.ctx, out.r[2]) :
                    out \in SerializeEntries(interners, value[2])}
          [] value[1] = "struct" ->
                UNION {IF ~IsSome(out.r) THEN {out}
                       ELSE SerializeObjectEnd(out.ctx, out.r[2]) :
                    out \in SerializeEntries(interners, FieldsAsEntries(value[2]))}
          [] value[1] = "struct_variant" ->
                UNION {IF ~IsSome(out.r) THEN {out}
                       ELSE LET k == ArenaIntern(out.ctx.string, value[2])
                            IN  {InternVariant(inner.ctx, k.id, inner.r[2]) :
                                    inner \in SerializeObjectEnd(
                                        [out.ctx EXCEPT !.string = k.arena],
                                        out.r[2])} :
                    out \in SerializeEntries(interners, FieldsAsEntries(value[3]))}

\* the values given to from_value
SerInputs ==
    { <<"bool", TRUE>>, <<"i64", 1>>, <<"f64", 3>>, <<"char", 1>>,
      \* floats that are not finite
      <<"f64", NaN>>, <<"f32", Infinity>>, <<"seq", << <<"f64", NegInfinity>> >>>>,
      <<"some", <<"str", Sb>>>>, <<"unit">>, <<"bytes", <<1, 0>>>>,
      <<"unit_variant", Saa>>,
      <<"newtype_variant", Sb, <<"newtype_struct", <<"u64", 1>>>>>>,
      <<"seq", << <<"str", Sb>>, <<"none">>, <<"str", Sa>> >>>>,
      <<"tuple_variant", Sa, << <<"u64", 1>>, <<"str", Sb>> >>>>,
      \* a map of two keys
      <<"map", << <<<<"str", Sb>>, <<"u64", 1>>>>,
                  <<<<"char", 1>>, <<"str", Sb>>>> >>>>,
      \* a map whose key is no string
      <<"map", << <<<<"str", Sb>>, <<"str", Saa>>>>,
                  <<<<"u64", 1>>, <<"str", Sa>>>> >>>>,
      \* a map that gives one key twice, as a flattened field that meets a
      \* key of the flattened map does
      <<"map", << <<<<"str", Sa>>, <<"u64", 1>>>>,
                  <<<<"str", Sa>>, <<"u64", 2>>>> >>>>,
      \* a map whose keys of two kinds are the same string
      <<"map", << <<<<"unit_variant", Sb>>, <<"str", Sa>>>>,
                  <<<<"some", <<"str", Sb>>>>, <<"bool", FALSE>>>> >>>>,
      <<"struct", << <<Sb, <<"i64", 0 - 1>>>>, <<Sa, <<"seq", <<>>>>>> >>>>,
      \* a struct whose second field is a map whose key is no string
      <<"struct", << <<Sa, <<"seq", << <<"str", Sb>> >>>>>>,
                     <<Saa, <<"map", << <<<<"u64", 1>>, <<"unit">>>> >>>>>> >>>>,
      <<"struct_variant", Sa, << <<Sb, <<"u64", 1>>>>, <<Sa, <<"unit">>>> >>>> }

\* IValue::from_value
FromValue(value) ==
    /\ pc = "idle"
    /\ calls < MaxInterns
    /\ \E out \in Serialize(Self, value) :
          /\ string' = out.ctx.string
          /\ iarray' = out.ctx.iarray
          /\ iobject' = out.ctx.iobject
          /\ minted' = IF IsSome(out.r) THEN minted \cup {<<value, out.r[2]>>}
                                     ELSE minted
          /\ call' = <<"from_value", value>>
          /\ ret' = IF IsSome(out.r) THEN out.r ELSE <<"Err", "custom">>
    /\ calls' = calls + 1
    /\ UNCHANGED <<pc, limit, iter, optimized>>
    /\ UNCHANGED deltaVars
    /\ UNCHANGED concVars

Panic == <<"Panic">>

\* IValue::lookup of a handle that an intern call or a successful from_value
\* returned, in the context of that call
LookupCall(m) ==
    /\ pc = "idle"
    /\ call' = <<"lookup", m[2]>>
    /\ ret' = IF LookupPanics(Self, m[2]) THEN Panic
              ELSE Some(Lookup(Self, m[2]))
    /\ UNCHANGED ctxVars
    /\ UNCHANGED deltaVars
    /\ UNCHANGED concVars

NextSer ==
    \/ \E source \in JsonInputs : Intern(source)
    \/ \E source \in JsonInputs : InternRef(source)
    \/ \E value \in SerInputs : FromValue(value)
    \/ \E m \in minted : LookupCall(m)

SpecSer == Init /\ [][NextSer]_vars

----------------------------------------------------------------------------
(* C4 *)

\* the entries of every object of interners are strictly increasing by key
StrictlySorted(interners) ==
    \A n \in 1..Len(interners.iobject) :
        \A e \in 1..(Len(interners.iobject[n]) - 1) :
            interners.iobject[n][e][1] < interners.iobject[n][e + 1][1]

\* C4: in every context reached by intern and from_value, the entries of
\* every stored object are strictly increasing by KeyId, so no object holds
\* two entries of one key.
C4_Sortedness == StrictlySorted(Self)

\* what does hold: in every context reached by intern, and in the
\* destination of optimize and optimize_once, the objects are strictly sorted
SortedWhenInterned ==
    /\ StrictlySorted(Self)
    /\ Returned => StrictlySorted(Dest)

----------------------------------------------------------------------------
(* detail/mod.rs : the accumulators of the delta encoding *)

\* In this part an integer is held at its full width, as the sequence of
\* its 16-bit limbs, least significant first: four limbs for u64, two for
\* u32.  A signed integer (i64, i32) is its sign and its magnitude.  An f64
\* is the u64 of its bits, so to_bits and from_bits leave it as it is.  The
\* IValues of this part carry such payloads: U64 and F64 a u64, I64 an i64,
\* String, Array and Object a u32.

LimbBase == 65536

Limbs64 == 4
Limbs32 == 2

\* the numbers 0, x < 2^16, 2^(16n-1), 2^(16n)-1 and 2^(16n-1)-1 on n limbs
Zero(n) == [l \in 1..n |-> 0]
Small(n, x) == [l \in 1..n |-> IF l = 1 THEN x ELSE 0]
TopBit(n) == [l \in 1..n |-> IF l = n THEN LimbBase \div 2 ELSE 0]
AllOnes(n) == [l \in 1..n |-> LimbBase - 1]
AllButTop(n) == [l \in 1..n |-> IF l = n THEN LimbBase \div 2 - 1 ELSE LimbBase - 1]

\* the carry into limb l of a + b
RECURSIVE CarryInto(_, _, _)
CarryInto(a, b, l) ==
    IF l = 1 THEN 0
    ELSE (a[l - 1] + b[l - 1] + CarryInto(a, b, l - 1)) \div LimbBase

\* u64::wrapping_add, u32::wrapping_add
WrappingAdd(a, b) ==
    [l \in 1..Len(a) |-> (a[l] + b[l] + CarryInto(a, b, l)) % LimbBase]

\* the borrow out of limb l - 1 of a - b
RECURSIVE BorrowInto(_, _, _)
BorrowInto(a, b, l) ==
    IF l = 1 THEN 0
    ELSE IF a[l - 1] - b[l - 1] - BorrowInto(a, b, l - 1) < 0 THEN 1 ELSE 0

\* u64::wrapping_sub, u32::wrapping_sub
WrappingSub(a, b) ==
    [l \in 1..Len(a) |->
        (LimbBase + a[l] - b[l] - BorrowInto(a, b, l)) % LimbBase]

\* the xor of two limbs, bit by bit
RECURSIVE XorLimb(_, _)
XorLimb(x, y) ==
    IF x = 0 /\ y = 0 THEN 0
    ELSE ((x + y) % 2) + 2 * XorLimb(x \div 2, y \div 2)

\* u64 ^ u64
Xor(a, b) == [l \in 1..Len(a) |-> XorLimb(a[l], b[l])]

Signed(neg, mag) == [neg |-> neg, mag |-> mag]

\* `x as i64` of a u64, `x as i32` of a u32: the same bits, read as two's
\* complement
AsSigned(x) ==
    IF x[Len(x)] >= LimbBase \div 2
    THEN Signed(TRUE, WrappingSub(Zero(Len(x)), x))
    ELSE Signed(FALSE, x)

\* the magnitude of a signed integer, its sign dropped
AsUnsignedAbs(x) == x.mag

\* `x as u64` of an i64, `x as u32` of an i32
AsUnsigned(x) ==
    IF x.neg THEN WrappingSub(Zero(Len(x.mag)), x.mag) ELSE x.mag

\* i64::wrapping_sub
SignedWrappingSub(x, y) == AsSigned(WrappingSub(AsUnsigned(x), AsUnsigned(y)))

\* i64::wrapping_add
SignedWrappingAdd(x, y) == AsSigned(WrappingAdd(AsUnsigned(x), AsUnsigned(y)))

\* IValueAccumulator::default
IValueAccumulatorDefault ==
    [b |-> FALSE, u |-> Zero(Limbs64), i |-> Signed(FALSE, Zero(Limbs64)),
     f |-> Zero(Limbs64), s |-> Zero(Limbs32), a |-> Zero(Limbs32),
     o |-> Zero(Limbs32)]

\* IValueAccumulator::fold : the accumulator after the call and the delta
IValueFold(acc, v) ==
    CASE v[1] = "Null" -> [acc |-> acc, d |-> <<"Null", 0>>]
      [] v[1] = "Bool" ->
            [acc |-> [acc EXCEPT !.b = v[2]], d |-> <<"Bool", acc.b # v[2]>>]
      [] v[1] = "U64" ->
            [acc |-> [acc EXCEPT !.u = v[2]],
             d |-> <<"U64", AsSigned(WrappingSub(v[2], acc.u))>>]
      [] v[1] = "I64" ->
            [acc |-> [acc EXCEPT !.i = v[2]],
             d |-> <<"I64", SignedWrappingSub(v[2], acc.i)>>]
      [] v[1] = "F64" ->
            [acc |-> [acc EXCEPT !.f = v[2]], d |-> <<"F64", Xor(v[2], acc.f)>>]
      [] v[1] = "String" ->
            [acc |-> [acc EXCEPT !.s = v[2]],
             d |-> <<"String", AsSigned(WrappingSub(v[2], acc.s))>>]
      [] v[1] = "Array" ->
            [acc |-> [acc EXCEPT !.a = v[2]],
             d |-> <<"Array", AsSigned(WrappingSub(v[2], acc.a))>>]
      [] v[1] = "Object" ->
            [acc |-> [acc EXCEPT !.o = v[2]],
             d |-> <<"Object", AsSigned(WrappingSub(v[2], acc.o))>>]

\* IValueAccumulator::unfold : the accumulator after the call and the value
IValueUnfold(acc, d) ==
    LET With(field, x) == [acc |-> [acc EXCEPT ![field] = x], v |-> <<d[1], x>>]
    IN  CASE d[1] = "Null" -> [acc |-> acc, v |-> <<"Null", 0>>]
          [] d[1] = "Bool" -> With("b", acc.b # d[2])
          [] d[1] = "U64" -> With("u", WrappingAdd(acc.u, AsUnsigned(d[2])))
          [] d[1] = "I64" -> With("i", SignedWrappingAdd(acc.i, d[2]))
          [] d[1] = "F64" -> With("f", Xor(acc.f, d[2]))
          [] d[1] = "String" -> With("s", WrappingAdd(acc.s, AsUnsigned(d[2])))
          [] d[1] = "Array" -> With("a", WrappingAdd(acc.a, AsUnsigned(d[2])))
          [] d[1] = "Object" -> With("o", WrappingAdd(acc.o, AsUnsigned(d[2])))

\* fold of a slice by an accumulator that starts afresh at every slice
RECURSIVE FoldSliceFrom(_, _)
FoldSliceFrom(acc, v) ==
    IF v = <<>> THEN [acc |-> acc, d |-> <<>>]
    ELSE LET x == IValueFold(acc, Head(v))
             rest == FoldSliceFrom(x.acc, Tail(v))
         IN  [acc |-> rest.acc, d |-> <<x.d>> \o rest.d]

IArrayFoldFresh(acc, v) == FoldSliceFrom(IValueAccumulatorDefault, v)

\* IArrayAccumulator::fold
RECURSIVE IArrayFold(_, _)
IArrayFold(acc, v) ==
    IF v = <<>> THEN [acc |-> acc, d |-> <<>>]
    ELSE LET x == IValueFold(acc, Head(v))
             rest == IArrayFold(x.acc, Tail(v))
         IN  [acc |-> rest.acc, d |-> <<x.d>> \o rest.d]

\* IArrayAccumulator::unfold
RECURSIVE IArrayUnfold(_, _)
IArrayUnfold(acc, d) ==
    IF d = <<>> THEN [acc |-> acc, v |-> <<>>]
    ELSE LET x == IValueUnfold(acc, Head(d))
             rest == IArrayUnfold(x.acc, Tail(d))
         IN  [acc |-> rest.acc, v |-> <<x.v>> \o rest.v]

\* IObjectAccumulator::default : the empty map
IObjectAccumulatorDefault == <<>>

\* a fresh accumulator whatever the key
EntryFresh(map, k) == IValueAccumulatorDefault

\* HashMap::entry(k).or_default() : the accumulator of key k
Entry(map, k) ==
    IF k \in DOMAIN map THEN map[k] ELSE IValueAccumulatorDefault

\* the map with the accumulator of key k set
Insert(map, k, acc) ==
    [x \in DOMAIN map \cup {k} |-> IF x = k THEN acc ELSE map[x]]

\* IObjectAccumulator::fold, the closure over the entries from one on, key
\* the key of the entry before
RECURSIVE IObjectFoldFrom(_, _, _)
IObjectFoldFrom(map, v, key) ==
    IF v = <<>> THEN [acc |-> map, d |-> <<>>]
    ELSE LET k == Head(v)[1]
             x == IValueFold(Entry(map, k), Head(v)[2])
             rest == IObjectFoldFrom(Insert(map, k, x.acc), Tail(v), k)
         IN  [acc |-> rest.acc,
              d |-> <<<<AsSigned(WrappingSub(k, key)), x.d>>>> \o rest.d]

\* IObjectAccumulator::fold
IObjectFold(map, v) == IObjectFoldFrom(map, v, Zero(Limbs32))

\* IObjectAccumulator::unfold, the closure over the entries from one on
RECURSIVE IObjectUnfoldFrom(_, _, _)
IObjectUnfoldFrom(map, d, key) ==
    IF d = <<>> THEN [acc |-> map, v |-> <<>>]
    ELSE LET k == WrappingAdd(AsUnsigned(Head(d)[1]), key)
             x == IValueUnfold(Entry(map, k), Head(d)[2])
             rest == IObjectUnfoldFrom(Insert(map, k, x.acc), Tail(d), k)
         IN  [acc |-> rest.acc, v |-> <<<<k, x.v>>>> \o rest.v]

\* IObjectAccumulator::unfold
IObjectUnfold(map, d) == IObjectUnfoldFrom(map, d, Zero(Limbs32))

----------------------------------------------------------------------------
(* The encoder and the decoder of one stream *)

MaxFolds == 3       \* number of fold calls on one accumulator

\* the values folded: every variant, and payloads whose differences wrap
DeltaValues ==
    { <<"Null", 0>>, <<"Bool", TRUE>>,
      <<"U64", Small(Limbs64, 1)>>, <<"U64", TopBit(Limbs64)>>,
      <<"U64", AllOnes(Limbs64)>>,
      <<"I64", Signed(TRUE, TopBit(Limbs64))>>,
      <<"I64", Signed(FALSE, AllButTop(Limbs64))>>,
      <<"F64", <<1, 0, 0, 32760>>>>,
      <<"String", Small(Limbs32, 1)>>, <<"String", AllOnes(Limbs32)>>,
      <<"Array", TopBit(Limbs32)>>, <<"Object", Small(Limbs32, 2)>> }

\* the slices of an array arena
DeltaArrays ==
    { <<>>,
      << <<"U64", Small(Limbs64, 1)>>, <<"String", Small(Limbs32, 1)>> >>,
      << <<"U64", Zero(Limbs64)>> >>,
      << <<"String", Zero(Limbs32)>>, <<"U64", AllOnes(Limbs64)>>,
         <<"String", AllOnes(Limbs32)>> >>,
      << <<"Bool", TRUE>>, <<"I64", Signed(TRUE, Small(Limbs64, 1))>> >>,
      << <<"Bool", TRUE>>, <<"Null", 0>>, <<"U64", TopBit(Limbs64)>> >> }

\* the slices of an object arena
DeltaObjects ==
    { <<>>,
      << <<Zero(Limbs32), <<"U64", Small(Limbs64, 1)>>>>,
         <<Small(Limbs32, 1), <<"U64", Small(Limbs64, 5)>>>> >>,
      << <<Small(Limbs32, 1), <<"U64", Zero(Limbs64)>>>> >>,
      << <<Zero(Limbs32), <<"U64", AllOnes(Limbs64)>>>>,
         <<AllOnes(Limbs32), <<"Bool", TRUE>>>> >>,
      << <<Small(Limbs32, 1), <<"String", Small(Limbs32, 1)>>>>,
         <<TopBit(Limbs32), <<"U64", Small(Limbs64, 1)>>>>,
         <<AllOnes(Limbs32), <<"Bool", TRUE>>>> >>,
      \* entries not in the order of their keys
      << <<Small(Limbs32, 1), <<"U64", Small(Limbs64, 2)>>>>,
         <<Zero(Limbs32), <<"U64", Small(Limbs64, 2)>>>> >> }

\* a stream starts with fresh accumulators on both sides
InitDelta ==
    /\ string = <<>>
    /\ iarray = <<>>
    /\ iobject = <<>>
    /\ minted = {}
    /\ calls = 0
    /\ pc = "idle"
    /\ limit = None
    /\ iter = 0
    /\ optimized = None
    /\ stream \in {"value", "array", "object"}
    /\ fold_acc = IF stream = "object" THEN IObjectAccumulatorDefault
                  ELSE IValueAccumulatorDefault
    /\ unfold_acc = fold_acc
    /\ sent = <<>>
    /\ wire = <<>>
    /\ received = <<>>
    /\ call = None
    /\ ret = None
    /\ threads = <<>>
    /\ pass = None

\* IValueAccumulator::fold of the next value
FoldValue(v) ==
    /\ stream = "value"
    /\ Len(sent) < MaxFolds
    /\ \E r \in {IValueFold(fold_acc, v)} :
          /\ fold_acc' = r.acc
          /\ wire' = Append(wire, r.d)
    /\ sent' = Append(sent, v)
    /\ UNCHANGED <<unfold_acc, received, stream>>
    /\ UNCHANGED ctxVars
    /\ UNCHANGED callVars
    /\ UNCHANGED concVars

\* IValueAccumulator::unfold of the next delta
UnfoldValue ==
    /\ stream = "value"
    /\ Len(received) < Len(wire)
    /\ \E r \in {IValueUnfold(unfold_acc, wire[Len(received) + 1])} :
          /\ unfold_acc' = r.acc
          /\ received' = Append(received, r.v)
    /\ UNCHANGED <<fold_acc, sent, wire, stream>>
    /\ UNCHANGED ctxVars
    /\ UNCHANGED callVars
    /\ UNCHANGED concVars

\* the encoding of the array arena: IArrayAccumulator::fold of the next
\* slice, on the one accumulator of the arena
FoldArray(v) ==
    /\ stream = "array"
    /\ Len(sent) < MaxFolds
    /\ \E r \in {IArrayFold(fold_acc, v)} :
          /\ fold_acc' = r.acc
          /\ wire' = Append(wire, r.d)
    /\ sent' = Append(sent, v)
    /\ UNCHANGED <<unfold_acc, received, stream>>
    /\ UNCHANGED ctxVars
    /\ UNCHANGED callVars
    /\ UNCHANGED concVars

\* the decoding of the array arena: IArrayAccumulator::unfold of the next
\* slice of deltas
UnfoldArray ==
    /\ stream = "array"
    /\ Len(received) < Len(wire)
    /\ \E r \in {IArrayUnfold(unfold_acc, wire[Len(received) + 1])} :
          /\ unfold_acc' = r.acc
          /\ received' = Append(received, r.v)
    /\ UNCHANGED <<fold_acc, sent, wire, stream>>
    /\ UNCHANGED ctxVars
    /\ UNCHANGED callVars
    /\ UNCHANGED concVars

\* the encoding of the object arena: IObjectAccumulator::fold of the next
\* slice, on the one accumulator of the arena
FoldObject(v) ==
    /\ stream = "object"
    /\ Len(sent) < MaxFolds
    /\ \E r \in {IObjectFold(fold_acc, v)} :
          /\ fold_acc' = r.acc
          /\ wire' = Append(wire, r.d)
    /\ sent' = Append(sent, v)
    /\ UNCHANGED <<unfold_acc, received, stream>>
    /\ UNCHANGED ctxVars
    /\ UNCHANGED callVars
    /\ UNCHANGED concVars

\* the decoding of the object arena: IObjectAccumulator::unfold of the next
\* slice of deltas
UnfoldObject ==
    /\ stream = "object"
    /\ Len(received) < Len(wire)
    /\ \E r \in {IObjectUnfold(unfold_acc, wire[Len(received) + 1])} :
          /\ unfold_acc' = r.acc
          /\ received' = Append(received, r.v)
    /\ UNCHANGED <<fold_acc, sent, wire, stream>>
    /\ UNCHANGED ctxVars
    /\ UNCHANGED callVars
    /\ UNCHANGED concVars

NextDelta ==
    \/ \E v \in DeltaValues : FoldValue(v)
    \/ UnfoldValue
    \/ \E v \in DeltaArrays : FoldArray(v)
    \/ UnfoldArray
    \/ \E v \in DeltaObjects : FoldObject(v)
    \/ UnfoldObject

SpecDelta == InitDelta /\ [][NextDelta]_vars

----------------------------------------------------------------------------
(* C7, C8, C9 *)

\* the elements of the slices, one after the other
RECURSIVE Flatten(_)
Flatten(slices) ==
    IF slices = <<>> THEN <<>> ELSE Head(slices) \o Flatten(Tail(slices))

\* the items the decoder gave back are the items the encoder was given
RoundTrip == received = SubSeq(sent, 1, Len(received))

\* C7: a sequence of IValues of any variants folded by a fresh
\* IValueAccumulator and its deltas unfolded by another fresh one comes back
\* as it was, value for value, also where a difference wraps.
C7_ValueRoundTrip == stream = "value" => RoundTrip

\* a whole sequence has come back, and in it a u64 difference that wrapped
\* to a negative i64, an id difference that wrapped to a negative i32 and an
\* i64 difference that wrapped
C7_Witness ==
    /\ stream = "value"
    /\ Len(sent) = 3
    /\ received = sent
    /\ \E n \in 1..Len(wire) : wire[n][1] = "U64" /\ wire[n][2].neg
    /\ \/ \E n \in 1..Len(wire) : wire[n][1] = "String" /\ wire[n][2].neg
       \/ \E n \in 2..Len(wire) :
            /\ sent[n] = <<"I64", Signed(TRUE, TopBit(Limbs64))>>
            /\ sent[n - 1] = <<"I64", Signed(FALSE, AllButTop(Limbs64))>>

\* C8: the deltas of the slices of the array arena are those one
\* IValueAccumulator gives for the elements of all the slices in arena
\* order, its state carried from each slice to the next, and unfolding them
\* in arena order gives every slice back.
C8_ArrayDelta ==
    stream = "array" =>
        /\ Len(wire) = Len(sent)
        /\ \A n \in 1..Len(wire) : Len(wire[n]) = Len(sent[n])
        /\ \E r \in {IArrayFold(IValueAccumulatorDefault, Flatten(sent))} :
              /\ Flatten(wire) = r.d
              /\ fold_acc = r.acc
        /\ RoundTrip

\* two slices have come back, and the first delta of the second is not the
\* one a fresh accumulator gives
C8_Witness ==
    /\ stream = "array"
    /\ Len(sent) >= 2
    /\ received = sent
    /\ \E n \in 2..Len(sent) :
          /\ sent[n] # <<>>
          /\ wire[n][1] # IValueFold(IValueAccumulatorDefault, sent[n][1]).d

\* the values and the deltas of the entries of key k, in arena order
OfKey(k) ==
    LET fs == Flatten(sent)
        fw == Flatten(wire)
        IsK(z) == z[1] = k
        sel == SelectSeq([j \in 1..Len(fs) |-> <<fs[j][1], fs[j][2], fw[j][2]>>], IsK)
    IN  [v |-> [j \in 1..Len(sel) |-> sel[j][2]],
         d |-> [j \in 1..Len(sel) |-> sel[j][3]]]

\* C9: the key delta of an entry is the wrapping difference from the key
\* before it in the same object, from 0 at the first entry of every object;
\* the value deltas of the entries of one key, over all the objects, are
\* those one IValueAccumulator gives for their values; unfolding with a
\* fresh IObjectAccumulator ends with the same accumulators as folding and
\* gives every entry back.
C9_ObjectDelta ==
    stream = "object" =>
        /\ Len(wire) = Len(sent)
        /\ \A n \in 1..Len(wire) :
              /\ Len(wire[n]) = Len(sent[n])
              /\ \A e \in 1..Len(wire[n]) :
                    wire[n][e][1] =
                        AsSigned(WrappingSub(sent[n][e][1],
                            IF e = 1 THEN Zero(Limbs32) ELSE sent[n][e - 1][1]))
        /\ \A k \in {z[1] : z \in Range(Flatten(sent))} :
              \E of \in {OfKey(k)} :
                  /\ of.d = IArrayFold(IValueAccumulatorDefault, of.v).d
                  /\ fold_acc[k] = IArrayFold(IValueAccumulatorDefault, of.v).acc
        /\ DOMAIN fold_acc = {z[1] : z \in Range(Flatten(sent))}
        /\ RoundTrip
        /\ Len(received) = Len(sent) => unfold_acc = fold_acc

\* the objects have come back; one key is in two of them and the delta of
\* its second value is not the one a fresh accumulator gives; one key delta
\* is negative; one object starts at a key other than the last key of the
\* object before
C9_Witness ==
    /\ stream = "object"
    /\ received = sent
    /\ \E n \in 1..Len(sent) : \E m \in (n + 1)..Len(sent) :
          \E e \in 1..Len(sent[n]) : \E f \in 1..Len(sent[m]) :
              /\ sent[n][e][1] = sent[m][f][1]
              /\ wire[m][f][2] # IValueFold(IValueAccumulatorDefault, sent[m][f][2]).d
    /\ \E n \in 1..Len(wire) : \E e \in 1..Len(wire[n]) : wire[n][e][1].neg
    /\ \E n \in 2..Len(sent) :
          /\ sent[n] # <<>> /\ sent[n - 1] # <<>>
          /\ sent[n][1][1] # Zero(Limbs32)
          /\ wire[n][1][1] = Signed(FALSE, sent[n][1][1])

----------------------------------------------------------------------------
(* C11 *)

\* the entries of an arena are in strictly ascending order: shorter before
\* longer, and entries of one length in lexicographic order
Ascending(arena, Cmp(_, _)) ==
    \A i \in 1..Len(arena) : \A j \in (i + 1)..Len(arena) :
        \/ Len(arena[i]) < Len(arena[j])
        \/ /\ Len(arena[i]) = Len(arena[j])
           /\ LexCmp(Cmp, arena[i], arena[j]) < 0

\* the three arenas are each in canonical id order
Canonical(interners) ==
    /\ Ascending(interners.string, CmpInt)
    /\ Ascending(interners.iarray, CmpIValue)
    /\ Ascending(interners.iobject, CmpEntry)

----------------------------------------------------------------------------
(* detail/mapping.rs : compose, called on its own *)

MaxIds == 3         \* largest length of an id space of a composed mapping

\* the MappingImpl values over n ids that renumber them
RenumberingsOf(n) ==
    {<<"Identity", n>>}
    \cup {<<"Map", f>> : f \in {g \in [1..n -> 0..(n - 1)] :
                                  \A i, j \in 1..n : g[i] = g[j] => i = j}}

\* the arguments of MappingImpl::compose: two mappings of one length, of
\* max ids at most
ImplComposeCalls(max) ==
    UNION {{[op |-> "MappingImpl::compose", self |-> m1, other |-> m2] :
                m1 \in RenumberingsOf(n), m2 \in RenumberingsOf(n)} :
            n \in 0..max}

\* the arguments of Mapping::compose: a Mapping and a MappingNoStrings over
\* the same arrays and objects, the arrays max at most
ComposeCalls(max) ==
    UNION {{[op |-> "Mapping::compose",
             self |-> [string |-> s, iarray |-> a1, iobject |-> o1],
             other |-> [iarray |-> a2, iobject |-> o2]] :
                s \in RenumberingsOf(2),
                a1 \in RenumberingsOf(n), a2 \in RenumberingsOf(n),
                o1 \in RenumberingsOf(k), o2 \in RenumberingsOf(k)} :
            n \in 0..max, k \in 0..2}

InitCompose ==
    /\ string = <<>>
    /\ iarray = <<>>
    /\ iobject = <<>>
    /\ minted = {}
    /\ calls = 0
    /\ pc = "idle"
    /\ limit = None
    /\ iter = 0
    /\ optimized = None
    /\ stream = "none"
    /\ fold_acc = None
    /\ unfold_acc = None
    /\ sent = <<>>
    /\ wire = <<>>
    /\ received = <<>>
    /\ \/ call \in ImplComposeCalls(MaxIds)
       \/ call \in ComposeCalls(MaxIds)
    /\ ret = None
    /\ threads = <<>>
    /\ pass = None

\* MappingImpl::compose
CallImplCompose ==
    /\ call.op = "MappingImpl::compose"
    /\ ret = None
    /\ ret' = Some(ImplCompose(call.self, call.other))
    /\ UNCHANGED <<ctxVars, deltaVars, call, threads, pass>>

\* Mapping::compose
CallCompose ==
    /\ call.op = "Mapping::compose"
    /\ ret = None
    /\ ret' = Some(Compose(call.self, call.other))
    /\ UNCHANGED <<ctxVars, deltaVars, call, threads, pass>>

NextCompose == CallImplCompose \/ CallCompose

SpecCompose == InitCompose /\ [][NextCompose]_vars

----------------------------------------------------------------------------
(* C12 *)

\* the handles a mapping takes: one for every id, and two without an id
HandlesUnder(m) ==
    {INull, <<"U64", 1>>}
    \cup {<<"String", i>> : i \in 0..(ImplLen(m.string) - 1)}
    \cup {<<"Array", i>> : i \in 0..(ImplLen(m.iarray) - 1)}
    \cup {<<"Object", i>> : i \in 0..(ImplLen(m.iobject) - 1)}

\* C12: the composition of m1 and m2 takes every id i to m2.at(m1.at(i)) and
\* every handle h to m2.map(m1.map(h)), whichever of the two is an Identity
\* or an explicit mapping, and the composition of two Identity mappings is
\* an Identity mapping.
C12_Composition ==
    /\ (IsSome(ret) /\ call.op = "MappingImpl::compose") =>
          /\ ImplLen(ret[2]) = ImplLen(call.self)
          /\ \A i \in 0..(ImplLen(call.self) - 1) :
                At(ret[2], i) = At(call.other, At(call.self, i))
          /\ (ImplIsIdentity(call.self) /\ ImplIsIdentity(call.other))
                => ImplIsIdentity(ret[2])
    /\ (IsSome(ret) /\ call.op = "Mapping::compose") =>
          \A h \in HandlesUnder(call.self) :
              Map(ret[2], h) = MapNoStrings(call.other, Map(call.self, h))

\* two explicit mappings of three ids that do not commute were composed
C12_Witness ==
    /\ IsSome(ret)
    /\ call.op = "MappingImpl::compose"
    /\ call.self[1] = "Map" /\ call.other[1] = "Map"
    /\ Len(call.self[2]) = 3
    /\ \E i \in 0..2 :
          At(call.other, At(call.self, i)) # At(call.self, At(call.other, i))

----------------------------------------------------------------------------
(* Threads interning into one context, and optimize_once beside them.      *)
(* Jinterners is shared by reference: an intern call is a sequence of      *)
(* arena calls, each of them atomic, and another thread may run between    *)
(* any two of them; optimize_once reads the three arenas at three moments. *)

NumThreads == 2     \* the threads that intern

Threads == 1..NumThreads

\* IValueImpl::from, IValueImpl::from_ref : the steps of one call in the
\* order the code takes them.  The elements of an array come before the
\* intern_copy of the array; of an object, each key before its value, and
\* the intern_copy of the sorted entries last.
RECURSIVE StepsOf(_)
RECURSIVE StepsOfAll(_)
RECURSIVE StepsOfEntries(_)

StepsOfAll(a) ==
    IF a = <<>> THEN <<>> ELSE StepsOf(Head(a)) \o StepsOfAll(Tail(a))

StepsOfEntries(o) ==
    IF o = <<>> THEN <<>>
    ELSE <<[op |-> "key", arg |-> Head(o)[1]]>>
         \o StepsOf(Head(o)[2]) \o StepsOfEntries(Tail(o))

StepsOf(source) ==
    CASE source[1] = "String" -> <<[op |-> "string", arg |-> source[2]]>>
      [] source[1] = "Array" ->
            StepsOfAll(source[2]) \o <<[op |-> "array", arg |-> Len(source[2])]>>
      [] source[1] = "Object" ->
            StepsOfEntries(source[2]) \o <<[op |-> "object", arg |-> Len(source[2])]>>
      [] OTHER -> <<[op |-> "scalar", arg |-> source]>>

\* the last n values a thread computed
Top(stack, n) == SubSeq(stack, Len(stack) - n + 1, Len(stack))
Pop(stack, n) == SubSeq(stack, 1, Len(stack) - n)

\* the last n (key, value) pairs a thread computed
TopEntries(stack, n) ==
    [i \in 1..n |-> <<stack[Len(stack) - 2 * n + 2 * i - 1],
                      stack[Len(stack) - 2 * n + 2 * i]>>]

\* the JSON values the threads intern: the same object in both key orders,
\* arrays whose strings arrive in the order b, a, a nested array
ConcInputs ==
    {JObj(<<<<Sb, JPosInt(1)>>, <<Sa, JStr(Sb)>>>>),
     JObj(<<<<Sa, JStr(Sb)>>, <<Sb, JPosInt(1)>>>>),
     JArr(<<JStr(Sb), JStr(Sa)>>),
     JArr(<<JArr(<<JStr(Saa)>>)>>)}

\* `raced` records that the thread took a step while another thread was in
\* the middle of its call
IdleThread == [started |-> FALSE, source |-> JNull, todo |-> <<>>,
               stack |-> <<>>, ret |-> None, raced |-> FALSE]

\* thread u has taken a step of its call and has steps left
MidCall(u) == threads[u].todo # <<>> /\ threads[u].stack # <<>>

\* MappingImpl::at of an explicit map, `map[index as usize]` : an index past
\* the end of the map panics
AtPanics(m, index) == m[1] = "Map" /\ index >= Len(m[2])

\* Mapping::map : whether its call of MappingImpl::at panics
MapPanics(m, v) ==
    CASE v[1] = "String" -> AtPanics(m.string, v[2])
      [] v[1] = "Array" -> AtPanics(m.iarray, v[2])
      [] v[1] = "Object" -> AtPanics(m.iobject, v[2])
      [] OTHER -> FALSE

NoDest == Interners(<<>>, <<>>, <<>>)
NoMapping == [string |-> <<"Identity", 0>>, iarray |-> <<"Identity", 0>>,
              iobject |-> <<"Identity", 0>>]

\* Jinterners::optimize_once from `let mapping` on, given the three orders it
\* computed: "none" for None, "panic" when an index of the loops panics,
\* else "some" with the destination and the mapping
OptimizeOnceWith(self, string_rev, iarray_rev, iobject_rev) ==
    LET mapping == [string |-> Reverse(string_rev),
                    iarray |-> Reverse(iarray_rev),
                    iobject |-> Reverse(iobject_rev)]
        MapArray(array) == [e \in 1..Len(array) |-> Map(mapping, array[e])]
        MapObject(object) ==
            CHOOSE s \in SortUnstableByKey(
                [e \in 1..Len(object) |->
                    <<MapStrKey(mapping, object[e][1]), Map(mapping, object[e][2])>>]) : TRUE
        ArrayPanics(array) == \E e \in 1..Len(array) : MapPanics(mapping, array[e])
        ObjectPanics(object) ==
            \E e \in 1..Len(object) :
                \/ AtPanics(mapping.string, object[e][1])
                \/ MapPanics(mapping, object[e][2])
    IN  IF MappingIsIdentity(mapping)
        THEN [outcome |-> "none", ctx |-> NoDest, mapping |-> NoMapping]
        ELSE IF \/ \E n \in 1..Len(iarray_rev) :
                      ArrayPanics(ArenaLookup(self.iarray, iarray_rev[n]))
                \/ \E n \in 1..Len(iobject_rev) :
                      ObjectPanics(ArenaLookup(self.iobject, iobject_rev[n]))
        THEN [outcome |-> "panic", ctx |-> NoDest, mapping |-> NoMapping]
        ELSE [outcome |-> "some",
              ctx |-> Interners(
                        PushStrings(self, string_rev),
                        [n \in 1..Len(iarray_rev) |->
                            MapArray(ArenaLookup(self.iarray, iarray_rev[n]))],
                        [n \in 1..Len(iobject_rev) |->
                            MapObject(ArenaLookup(self.iobject, iobject_rev[n]))]),
              mapping |-> mapping]

IdlePass == [pc |-> "idle",
             start |-> [string |-> 0, iarray |-> 0, iobject |-> 0],
             string_rev |-> <<>>, iarray_rev |-> <<>>, iobject_rev |-> <<>>,
             outcome |-> "none", ctx |-> NoDest, mapping |-> NoMapping]

InitConc ==
    /\ string = <<>>
    /\ iarray = <<>>
    /\ iobject = <<>>
    /\ minted = {}
    /\ calls = 0
    /\ pc = "idle"
    /\ limit = None
    /\ iter = 0
    /\ optimized = None
    /\ stream = "none"
    /\ fold_acc = None
    /\ unfold_acc = None
    /\ sent = <<>>
    /\ wire = <<>>
    /\ received = <<>>
    /\ call = None
    /\ ret = None
    /\ threads = [t \in Threads |-> IdleThread]
    /\ pass = IdlePass

\* thread t calls Jinterners::intern(source)
ThreadIntern(t, source) ==
    /\ ~threads[t].started
    /\ threads' = [threads EXCEPT ![t] =
            [started |-> TRUE, source |-> source, todo |-> StepsOf(source),
             stack |-> <<>>, ret |-> None, raced |-> FALSE]]
    /\ UNCHANGED <<ctxVars, deltaVars, callVars, pass>>

\* thread t calls Jinterners::intern_ref(source)
ThreadInternRef(t, source) ==
    /\ ~threads[t].started
    /\ threads' = [threads EXCEPT ![t] =
            [started |-> TRUE, source |-> source, todo |-> StepsOf(source),
             stack |-> <<>>, ret |-> None, raced |-> FALSE]]
    /\ UNCHANGED <<ctxVars, deltaVars, callVars, pass>>

\* thread t takes the next step of its call; the call returns with its last
\* step
ThreadStep(t) ==
    LET Raced == threads[t].raced \/ \E u \in Threads \ {t} : MidCall(u) IN
    /\ threads[t].todo # <<>>
    /\ \E step \in {Head(threads[t].todo)} : \E stack \in {threads[t].stack} :
        \E r \in
            CASE step.op = "scalar" ->
                    {[ctx |-> Self,
                      stack |-> Append(stack, From(Self, step.arg).v)]}
              [] step.op = "string" ->
                    {[ctx |-> [Self EXCEPT !.string = s.arena],
                      stack |-> Append(stack, <<"String", s.id>>)] :
                        s \in {ArenaIntern(string, step.arg)}}
              [] step.op = "key" ->
                    {[ctx |-> [Self EXCEPT !.string = s.arena],
                      stack |-> Append(stack, s.id)] :
                        s \in {ArenaIntern(string, step.arg)}}
              [] step.op = "array" ->
                    {[ctx |-> [Self EXCEPT !.iarray = a.arena],
                      stack |-> Append(Pop(stack, step.arg), <<"Array", a.id>>)] :
                        a \in {ArenaIntern(iarray, Top(stack, step.arg))}}
              [] step.op = "object" ->
                    {[ctx |-> [Self EXCEPT !.iobject = o.arena],
                      stack |-> Append(Pop(stack, 2 * step.arg), <<"Object", o.id>>)] :
                        o \in {ArenaIntern(iobject, io) :
                                io \in SortUnstableByKey(TopEntries(stack, step.arg))}} :
            /\ string' = r.ctx.string
            /\ iarray' = r.ctx.iarray
            /\ iobject' = r.ctx.iobject
            /\ IF Tail(threads[t].todo) = <<>>
               THEN /\ threads' = [threads EXCEPT ![t].todo = <<>>,
                                                  ![t].stack = <<>>,
                                                  ![t].ret = Some(r.stack[1]),
                                                  ![t].raced = Raced]
                    /\ minted' = minted \cup {<<threads[t].source, r.stack[1]>>}
               ELSE /\ threads' = [threads EXCEPT ![t].todo = Tail(threads[t].todo),
                                                  ![t].stack = r.stack,
                                                  ![t].raced = Raced]
                    /\ UNCHANGED minted
    /\ UNCHANGED <<calls, pc, limit, iter, optimized>>
    /\ UNCHANGED <<deltaVars, callVars, pass>>

\* optimize_once : `let string_rev = self.optimized_mapping_strings()`
PassStrings ==
    /\ pass.pc = "idle"
    /\ pass' = [pass EXCEPT !.pc = "arrays",
                            !.start = [string |-> Len(string),
                                       iarray |-> Len(iarray),
                                       iobject |-> Len(iobject)],
                            !.string_rev = OptimizedMappingStrings(Self)]
    /\ UNCHANGED <<ctxVars, deltaVars, callVars, threads>>

\* optimize_once : `let iarray_rev = self.optimized_mapping_arrays()`
PassArrays ==
    /\ pass.pc = "arrays"
    /\ pass' = [pass EXCEPT !.pc = "objects",
                            !.iarray_rev = OptimizedMappingArrays(Self)]
    /\ UNCHANGED <<ctxVars, deltaVars, callVars, threads>>

\* optimize_once : `let iobject_rev = self.optimized_mapping_objects()`
PassObjects ==
    /\ pass.pc = "objects"
    /\ pass' = [pass EXCEPT !.pc = "build",
                            !.iobject_rev = OptimizedMappingObjects(Self)]
    /\ UNCHANGED <<ctxVars, deltaVars, callVars, threads>>

\* optimize_once : the mapping, the test of is_identity, the three loops
PassBuild ==
    /\ pass.pc = "build"
    /\ \E r \in {OptimizeOnceWith(Self, pass.string_rev, pass.iarray_rev,
                                  pass.iobject_rev)} :
           pass' = [pass EXCEPT !.pc = "done", !.outcome = r.outcome,
                                !.ctx = r.ctx, !.mapping = r.mapping]
    /\ UNCHANGED <<ctxVars, deltaVars, callVars, threads>>

\* the threads alone
NextConc ==
    \/ \E t \in Threads : \E source \in ConcInputs : ThreadIntern(t, source)
    \/ \E t \in Threads : \E source \in ConcInputs : ThreadInternRef(t, source)
    \/ \E t \in Threads : ThreadStep(t)

SpecConc == InitConc /\ [][NextConc]_vars

\* the threads and one call of optimize_once on the context they intern into
NextPass ==
    \/ \E t \in Threads : \E source \in ConcInputs : ThreadIntern(t, source)
    \/ \E t \in Threads : \E source \in ConcInputs : ThreadInternRef(t, source)
    \/ \E t \in Threads : ThreadStep(t)
    \/ PassStrings
    \/ PassArrays
    \/ PassObjects
    \/ PassBuild

SpecPass == InitConc /\ [][NextPass]_vars

----------------------------------------------------------------------------
(* C13 *)

\* no two ids of the arena hold the same entry
StoredOnce(arena) ==
    \A i \in 1..Len(arena) : \A j \in 1..Len(arena) : arena[i] = arena[j] => i = j

\* C13: however the steps of the threads interleave, two intern or intern_ref
\* calls of structurally equal JSON values that have returned have returned
\* the same IValue, and every string, array slice and object slice of the
\* context is stored under exactly one id.
C13_ConcurrentIntern ==
    /\ \A t \in Threads : \A u \in Threads :
          (/\ IsSome(threads[t].ret)
           /\ IsSome(threads[u].ret)
           /\ JsonEq(threads[t].source, threads[u].source))
          => threads[t].ret = threads[u].ret
    /\ StoredOnce(string)
    /\ StoredOnce(iarray)
    /\ StoredOnce(iobject)

\* two threads interned the same object, written in two key orders, each
\* taking steps in the middle of the other's call, and got one handle
C13_Witness ==
    \E t \in Threads : \E u \in Threads :
        /\ t # u
        /\ threads[t].source # threads[u].source
        /\ threads[t].source[1] = "Object"
        /\ JsonEq(threads[t].source, threads[u].source)
        /\ threads[t].raced
        /\ threads[u].raced
        /\ IsSome(threads[t].ret)
        /\ threads[t].ret = threads[u].ret

----------------------------------------------------------------------------
(* C14 *)

\* C14: an optimize_once call that ran while threads interned into its source
\* has not panicked on a mapping index, and the destination it returned
\* holds no more entries in any arena than the source held when the call
\* started, every id stored in it naming an entry of the destination.
C14_PassBesideInterners ==
    pass.pc = "done" =>
        /\ pass.outcome # "panic"
        /\ pass.outcome = "some" =>
              /\ Len(pass.ctx.string) <= pass.start.string
              /\ Len(pass.ctx.iarray) <= pass.start.iarray
              /\ Len(pass.ctx.iobject) <= pass.start.iobject
              /\ RefIntegrity(pass.ctx)

----------------------------------------------------------------------------
(* C15 *)

\* C15: lookup of a handle that intern, intern_ref or a successful from_value
\* returned, made in the context of that call, returns a JSON value: it does
\* not panic, whatever float the value held.
C15_LookupInfallible == call[1] = "lookup" => ret # Panic

----------------------------------------------------------------------------
(* The number rule on its own: two JSON numbers interned into an empty     *)
(* context by intern or by intern_ref                                      *)

MaxNumber == 3      \* the largest magnitude of a number

\* serde_json::Number : the integers and the floats (in halves) up to
\* MaxNumber
Numbers ==
    {<<"PosInt", n>> : n \in 0..MaxNumber}
    \cup {<<"NegInt", 0 - n>> : n \in 1..MaxNumber}
    \cup {<<"Float", h>> : h \in (0 - 2 * MaxNumber)..(2 * MaxNumber)}

NumberCalls ==
    {[op |-> f, x |-> x, y |-> y] :
        f \in {"intern", "intern_ref"}, x \in Numbers, y \in Numbers}

InitNumber ==
    /\ string = <<>>
    /\ iarray = <<>>
    /\ iobject = <<>>
    /\ minted = {}
    /\ calls = 0
    /\ pc = "idle"
    /\ limit = None
    /\ iter = 0
    /\ optimized = None
    /\ stream = "none"
    /\ fold_acc = None
    /\ unfold_acc = None
    /\ sent = <<>>
    /\ wire = <<>>
    /\ received = <<>>
    /\ call \in NumberCalls
    /\ ret = None
    /\ threads = <<>>
    /\ pass = None

\* IValue::from of Value::Number(x), then of Value::Number(y)
InternNumbers ==
    /\ call.op = "intern"
    /\ ret = None
    /\ \E r1 \in {From(Self, <<"Number", call.x>>)} :
       \E r2 \in {From(r1.ctx, <<"Number", call.y>>)} :
           /\ string' = r2.ctx.string
           /\ iarray' = r2.ctx.iarray
           /\ iobject' = r2.ctx.iobject
           /\ ret' = Some(<<r1.v, r2.v>>)
    /\ UNCHANGED <<minted, calls, pc, limit, iter, optimized>>
    /\ UNCHANGED <<deltaVars, call, threads, pass>>

\* IValue::from_ref of Value::Number(x), then of Value::Number(y)
InternRefNumbers ==
    /\ call.op = "intern_ref"
    /\ ret = None
    /\ \E r1 \in {FromRef(Self, <<"Number", call.x>>)} :
       \E r2 \in {FromRef(r1.ctx, <<"Number", call.y>>)} :
           /\ string' = r2.ctx.string
           /\ iarray' = r2.ctx.iarray
           /\ iobject' = r2.ctx.iobject
           /\ ret' = Some(<<r1.v, r2.v>>)
    /\ UNCHANGED <<minted, calls, pc, limit, iter, optimized>>
    /\ UNCHANGED <<deltaVars, call, threads, pass>>

NextNumber == InternNumbers \/ InternRefNumbers

SpecNumber == InitNumber /\ [][NextNumber]_vars

----------------------------------------------------------------------------
(* C20 *)

\* the handle the rule gives to the number x: U64 for an integer that is not
\* negative, I64 for a negative integer, F64 for a float
ByNumberRule(x) ==
    IF x[1] # "Float" /\ x[2] >= 0 THEN <<"U64", x[2]>>
    ELSE IF x[1] # "Float" THEN <<"I64", x[2]>>
    ELSE <<"F64", x[2]>>

\* C20: intern and intern_ref both give a JSON number the handle of the
\* number rule, and two handles of different number variants are different
\* handles, also when their numbers are equal.
C20_NumberRule ==
    IsSome(ret) =>
        /\ ret[2][1] = ByNumberRule(call.x)
        /\ ret[2][2] = ByNumberRule(call.y)
        /\ ret[2][1][1] # ret[2][2][1] => ret[2][1] # ret[2][2]
        /\ ret[2][1][1] \in {"U64", "I64", "F64"}

\* intern_ref gave the integer 1 and the float 1.0 handles of two variants
C20_Witness ==
    /\ call.op = "intern_ref"
    /\ IsSome(ret)
    /\ call.x[1] = "PosInt"
    /\ call.y[1] = "Float"
    /\ AsF64(call.x) = AsF64(call.y)
    /\ ret[2][1] # ret[2][2]

----------------------------------------------------------------------------
(* C17 *)

\* the handles from_value gives x in the context as it is
EncodingsOf(x) == {out.r[2] : out \in {o \in Serialize(Self, x) : IsSome(o.r)}}

\* h is an object of exactly one entry whose key is the string variant
IsVariantObject(h, variant) ==
    /\ h[1] = "Object"
    /\ Len(ArenaLookup(iobject, h[2])) = 1
    /\ ArenaLookup(string, ArenaLookup(iobject, h[2])[1][1]) = variant

\* the value of the one entry of a variant object
VariantContent(h) == ArenaLookup(iobject, h[2])[1][2]

\* C17: from_value encodes a unit variant v as the string v; a newtype
\* variant v as an object of the one entry (v, the encoded payload); a tuple
\* variant v as an object of the one entry (v, the array of the encoded
\* fields in their order of declaration); a struct variant v as an object of
\* the one entry (v, the object of the encoded fields, sorted by KeyId).
C17_VariantEncoding ==
    \A m \in minted :
        /\ m[1][1] = "unit_variant" =>
              /\ m[2][1] = "String"
              /\ ArenaLookup(string, m[2][2]) = m[1][2]
        /\ m[1][1] = "newtype_variant" =>
              /\ IsVariantObject(m[2], m[1][2])
              /\ VariantContent(m[2]) \in EncodingsOf(m[1][3])
        /\ m[1][1] = "tuple_variant" =>
              /\ IsVariantObject(m[2], m[1][2])
              /\ VariantContent(m[2])[1] = "Array"
              /\ LET a == ArenaLookup(iarray, VariantContent(m[2])[2])
                 IN  /\ Len(a) = Len(m[1][3])
                     /\ \A i \in 1..Len(a) : a[i] \in EncodingsOf(m[1][3][i])
        /\ m[1][1] = "struct_variant" =>
              /\ IsVariantObject(m[2], m[1][2])
              /\ VariantContent(m[2])[1] = "Object"
              /\ LET o == ArenaLookup(iobject, VariantContent(m[2])[2])
                 IN  /\ Len(o) = Len(m[1][3])
                     /\ \A i \in 1..(Len(o) - 1) : o[i][1] < o[i + 1][1]
                     /\ \A f \in 1..Len(m[1][3]) : \E e \in 1..Len(o) :
                            /\ ArenaLookup(string, o[e][1]) = m[1][3][f][1]
                            /\ o[e][2] \in EncodingsOf(m[1][3][f][2])

\* a struct variant was encoded whose fields are stored in another order
\* than they were declared in
C17_Witness ==
    \E m \in minted :
        /\ m[1][1] = "struct_variant"
        /\ IsVariantObject(m[2], m[1][2])
        /\ LET o == ArenaLookup(iobject, VariantContent(m[2])[2])
           IN  ArenaLookup(string, o[1][1]) # m[1][3][1][1]

----------------------------------------------------------------------------
(* from_value of a map, over the kinds of key a Serialize implementation   *)
(* can give                                                                *)

MaxWrap == 2        \* how many Some / newtype structs wrap a key

\* a key of every kind of the serde data model (ObjectKeySerializer looks at
\* the kind alone, except under Some and a newtype struct)
KeyLeaves ==
    {<<"str", Sa>>, <<"char", 1>>, <<"unit_variant", Sb>>,
     <<"bool", TRUE>>, <<"i64", 0 - 1>>, <<"u64", 1>>, <<"f64", 3>>,
     <<"bytes", <<1>>>>, <<"none">>, <<"unit">>, <<"unit_struct">>,
     <<"newtype_variant", Sa, <<"str", Sb>>>>,
     <<"seq", << <<"str", Sa>> >>>>, <<"tuple", << <<"str", Sa>> >>>>,
     <<"tuple_struct", << <<"str", Sa>> >>>>,
     <<"tuple_variant", Sa, << <<"str", Sb>> >>>>,
     <<"map", <<>>>>, <<"struct", <<>>>>, <<"struct_variant", Sa, <<>>>>}

\* the keys under at most n wrappings of Some and newtype struct
RECURSIVE KeysWrapped(_)
KeysWrapped(n) ==
    IF n = 0 THEN KeyLeaves
    ELSE KeysWrapped(n - 1)
         \cup {<<"some", k>> : k \in KeysWrapped(n - 1)}
         \cup {<<"newtype_struct", k>> : k \in KeysWrapped(n - 1)}

\* from_value of a map that gives a string key, then the key of the call
KeyCalls == {[op |-> "from_value", key |-> k] : k \in KeysWrapped(MaxWrap)}

MapOfKey(k) ==
    <<"map", << <<<<"str", Sb>>, <<"u64", 1>>>>, <<k, <<"u64", 2>>>> >>>>

InitKey ==
    /\ string = <<>>
    /\ iarray = <<>>
    /\ iobject = <<>>
    /\ minted = {}
    /\ calls = 0
    /\ pc = "idle"
    /\ limit = None
    /\ iter = 0
    /\ optimized = None
    /\ stream = "none"
    /\ fold_acc = None
    /\ unfold_acc = None
    /\ sent = <<>>
    /\ wire = <<>>
    /\ received = <<>>
    /\ call \in KeyCalls
    /\ ret = None
    /\ threads = <<>>
    /\ pass = None

\* IValue::from_value of the map: ret is Some of the Result, which is Some of
\* the handle, or None for the error of ObjectKeySerializer (the only error
\* the serializers make of such a map)
FromValueOfMap ==
    /\ ret = None
    /\ \E out \in Serialize(Self, MapOfKey(call.key)) :
          /\ string' = out.ctx.string
          /\ iarray' = out.ctx.iarray
          /\ iobject' = out.ctx.iobject
          /\ ret' = Some(out.r)
    /\ UNCHANGED <<minted, calls, pc, limit, iter, optimized>>
    /\ UNCHANGED <<deltaVars, call, threads, pass>>

NextKey == FromValueOfMap

SpecKey == InitKey /\ [][NextKey]_vars

----------------------------------------------------------------------------
(* C18 *)

\* the keys the claim allows: a string, a char, a unit variant, and Some or
\* a newtype struct of an allowed key
RECURSIVE KeyAllowed(_)
KeyAllowed(k) ==
    \/ k[1] \in {"str", "char", "unit_variant"}
    \/ k[1] \in {"some", "newtype_struct"} /\ KeyAllowed(k[2])

\* C18: from_value of a map succeeds exactly when its key is a string, a
\* char, a unit variant, or Some or a newtype struct, to any depth, of one
\* of those; with a key of any other kind it returns the error of
\* unsupported keys.
C18_MapKeys == IsSome(ret) => (IsSome(ret[2]) <=> KeyAllowed(call.key))

\* a char under a newtype struct under Some was accepted as a key
C18_Witness ==
    /\ IsSome(ret)
    /\ IsSome(ret[2])
    /\ call.key[1] = "some"
    /\ call.key[2][1] = "newtype_struct"
    /\ call.key[2][2][1] = "char"

----------------------------------------------------------------------------
(* detail/de.rs : IValue::to_value *)

\* The type T of to_value::<T> decides which methods of the deserializer its
\* Deserialize implementation calls.  A type is a term:
\*   <<"bool">>  <<"i64">>  <<"u64">>  <<"f32">>  <<"f64">>  <<"char">>
\*   <<"str">>  <<"unit">>  <<"option", T>>  <<"newtype_struct", T>>
\*   <<"seq", T>>  <<"tuple", Ts>>  <<"tuple_struct", Ts>>  <<"map", K, T>>
\*   <<"struct", <<name, T>>...>>  <<"enum", variant...>>
\* and a variant of an enum is one of
\*   <<name, "unit">>  <<name, "newtype", T>>  <<name, "tuple", Ts>>
\*   <<name, "struct", <<name, T>>...>>
\* The result is Some of the value, a term of the serde data model as
\* from_value takes them, or Err of the kind of the error.

Err(kind) == <<"Err", kind>>

\* the variant of the enum ty that has the name, None when it has none
VariantNamed(ty, name) ==
    IF \E i \in 2..Len(ty) : ty[i][1] = name
    THEN Some(ty[CHOOSE i \in 2..Len(ty) : ty[i][1] = name])
    ELSE None

\* a StringDeserializer that gives strings alone
DeserializeStringOnly(interners, istring, ty) ==
    IF ty[1] = "str" THEN Some(<<"str", ArenaLookup(interners.string, istring)>>)
    ELSE Err("invalid_type")

\* StringDeserializer : the key of an object entry, or the name of a variant
RECURSIVE DeserializeString(_, _, _)
DeserializeString(interners, istring, ty) ==
    LET str == ArenaLookup(interners.string, istring)
        Wrapped(kind, inner) ==
            IF IsSome(inner) THEN Some(<<kind, inner[2]>>) ELSE inner
        Variant(v) ==
            IF ~IsSome(v) THEN Err("unknown_variant")
            ELSE IF v[2][2] = "unit" THEN Some(<<"unit_variant", str>>)
            ELSE Err("invalid_type")
    IN  CASE ty[1] = "str" -> Some(<<"str", str>>)
          [] ty[1] = "char" ->
                IF Len(str) = 1 THEN Some(<<"char", str[1]>>)
                ELSE Err("invalid_value")
          [] ty[1] = "option" ->
                Wrapped("some", DeserializeString(interners, istring, ty[2]))
          [] ty[1] = "newtype_struct" ->
                Wrapped("newtype_struct",
                        DeserializeString(interners, istring, ty[2]))
          [] ty[1] = "enum" -> Variant(VariantNamed(ty, str))
          [] OTHER -> Err("invalid_type")

RECURSIVE Deserialize(_, _, _)
RECURSIVE DeserializeElements(_, _, _)
RECURSIVE DeserializeEntries(_, _, _, _)
RECURSIVE DeserializeFields(_, _, _, _)

\* ArrayAccess::next_element_seed over the elements vs, the i-th into the
\* type tys[i], up to the first error
DeserializeElements(interners, vs, tys) ==
    IF vs = <<>> THEN Some(<<>>)
    ELSE LET h == Deserialize(interners, Head(vs), Head(tys))
         IN  IF ~IsSome(h) THEN h
             ELSE LET t == DeserializeElements(interners, Tail(vs), Tail(tys))
                  IN  IF ~IsSome(t) THEN t ELSE Some(<<h[2]>> \o t[2])

\* ObjectAccess::next_key_seed and next_value_seed over the entries, into
\* keys of the type k and values of the type ty, up to the first error
DeserializeEntries(interners, object, k, ty) ==
    IF object = <<>> THEN Some(<<>>)
    ELSE LET key == DeserializeString(interners, Head(object)[1], k)
         IN  IF ~IsSome(key) THEN key
             ELSE LET h == Deserialize(interners, Head(object)[2], ty)
                  IN  IF ~IsSome(h) THEN h
                      ELSE LET t == DeserializeEntries(interners, Tail(object), k, ty)
                           IN  IF ~IsSome(t) THEN t
                               ELSE Some(<<<<key[2], h[2]>>>> \o t[2])

\* the visitor of a struct over the entries of an object: an entry whose key
\* names a field gives the field its value (a second one is an error), any
\* other entry is skipped.  got[f] is the value of field f, None until given.
DeserializeFields(interners, object, fields, got) ==
    IF object = <<>> THEN Some(got)
    ELSE LET name == ArenaLookup(interners.string, Head(object)[1])
             Rest(g) == DeserializeFields(interners, Tail(object), fields, g)
         IN  IF \E f \in 1..Len(fields) : fields[f][1] = name
             THEN LET f == CHOOSE f \in 1..Len(fields) : fields[f][1] = name
                      h == Deserialize(interners, Head(object)[2], fields[f][2])
                  IN  IF IsSome(got[f]) THEN Err("duplicate_field")
                      ELSE IF ~IsSome(h) THEN h
                      ELSE Rest([got EXCEPT ![f] = h])
             ELSE Rest(got)

\* an object is taken for a variant when it has entries
SomeEntry(object) == Len(object) >= 1

\* deserialize_enum : the object that is taken for a variant, object.len() == 1
SingleEntry(object) == Len(object) = 1

\* ValueDeserializer
Deserialize(interners, v, ty) ==
    LET Wrapped(kind, inner) ==
            IF IsSome(inner) THEN Some(<<kind, inner[2]>>) ELSE inner
        \* deserialize_array, deserialize_array_expected_len past its test
        Array(kind, a, tys) ==
            IF Len(a) < Len(tys) THEN Err("invalid_length")
            ELSE IF Len(a) > Len(tys) THEN Err("invalid_length")
            ELSE Wrapped(kind, DeserializeElements(interners, a, tys))
        \* deserialize_object into a struct: the fields no entry gave are
        \* None when they are options, and an error otherwise
        Struct(kind, object, fields) ==
            LET got == DeserializeFields(interners, object, fields,
                                         [f \in 1..Len(fields) |-> None])
            IN  IF ~IsSome(got) THEN got
                ELSE IF \E f \in 1..Len(fields) :
                            ~IsSome(got[2][f]) /\ fields[f][2][1] # "option"
                THEN Err("missing_field")
                ELSE Some(<<kind,
                            [f \in 1..Len(fields) |->
                                <<fields[f][1],
                                  IF IsSome(got[2][f]) THEN got[2][f][2]
                                  ELSE <<"none">>>>]>>)
        \* VariantAccessor, the content of a variant held in an object
        Content(variant, value) ==
            CASE variant[2] = "unit" -> Err("invalid_type")
              [] variant[2] = "newtype" ->
                    LET x == Deserialize(interners, value, variant[3])
                    IN  IF IsSome(x)
                        THEN Some(<<"newtype_variant", variant[1], x[2]>>)
                        ELSE x
              [] variant[2] = "tuple" ->
                    IF value[1] # "Array" THEN Err("invalid_type")
                    ELSE LET a == ArenaLookup(interners.iarray, value[2])
                             xs == Array("tuple", a, variant[3])
                         IN  IF IsSome(xs)
                             THEN Some(<<"tuple_variant", variant[1], xs[2][2]>>)
                             ELSE xs
              [] variant[2] = "struct" ->
                    LET xs == IF value[1] = "Array"
                              THEN LET a == ArenaLookup(interners.iarray, value[2])
                                       ys == Array("tuple", a,
                                                [f \in 1..Len(variant[3]) |->
                                                    variant[3][f][2]])
                                   IN  IF ~IsSome(ys) THEN ys
                                       ELSE Some(<<"struct",
                                                [f \in 1..Len(variant[3]) |->
                                                    <<variant[3][f][1], ys[2][2][f]>>]>>)
                              ELSE IF value[1] = "Object"
                              THEN Struct("struct",
                                          ArenaLookup(interners.iobject, value[2]),
                                          variant[3])
                              ELSE Err("invalid_type")
                    IN  IF IsSome(xs)
                        THEN Some(<<"struct_variant", variant[1], xs[2][2]>>)
                        ELSE xs
    IN  CASE ty[1] = "bool" ->
                IF v[1] = "Bool" THEN Some(<<"bool", v[2]>>) ELSE Err("invalid_type")
          \* deserialize_integer; the visitor of i64 takes every u64 of the
          \* model, the visitor of u64 no negative i64
          [] ty[1] = "i64" ->
                IF v[1] \in {"I64", "U64"} THEN Some(<<"i64", v[2]>>)
                ELSE Err("invalid_type")
          [] ty[1] = "u64" ->
                IF v[1] = "U64" \/ (v[1] = "I64" /\ v[2] >= 0) THEN Some(<<"u64", v[2]>>)
                ELSE IF v[1] = "I64" THEN Err("invalid_value")
                ELSE Err("invalid_type")
          \* the floats of the model are floats of f32: `as f32` keeps them
          [] ty[1] \in {"f32", "f64"} ->
                IF v[1] = "F64" THEN Some(<<ty[1], v[2]>>) ELSE Err("invalid_type")
          [] ty[1] \in {"str", "char"} ->
                IF v[1] = "String" THEN DeserializeString(interners, v[2], ty)
                ELSE Err("invalid_type")
          [] ty[1] = "unit" ->
                IF v[1] = "Null" THEN Some(<<"unit">>) ELSE Err("invalid_type")
          [] ty[1] = "option" ->
                IF v[1] = "Null" THEN Some(<<"none">>)
                ELSE Wrapped("some", Deserialize(interners, v, ty[2]))
          [] ty[1] = "newtype_struct" ->
                Wrapped("newtype_struct", Deserialize(interners, v, ty[2]))
          [] ty[1] = "seq" ->
                IF v[1] # "Array" THEN Err("invalid_type")
                ELSE LET a == ArenaLookup(interners.iarray, v[2])
                     IN  Array("seq", a, [i \in 1..Len(a) |-> ty[2]])
          [] ty[1] \in {"tuple", "tuple_struct"} ->
                IF v[1] # "Array" THEN Err("invalid_type")
                ELSE Array(ty[1], ArenaLookup(interners.iarray, v[2]), ty[2])
          [] ty[1] = "map" ->
                IF v[1] # "Object" THEN Err("invalid_type")
                ELSE Wrapped("map",
                        DeserializeEntries(interners,
                            ArenaLookup(interners.iobject, v[2]), ty[2], ty[3]))
          [] ty[1] = "struct" ->
                IF v[1] = "Array"
                THEN LET ys == Array("tuple", ArenaLookup(interners.iarray, v[2]),
                                     [f \in 1..Len(ty[2]) |-> ty[2][f][2]])
                     IN  IF ~IsSome(ys) THEN ys
                         ELSE Some(<<"struct", [f \in 1..Len(ty[2]) |->
                                                <<ty[2][f][1], ys[2][2][f]>>]>>)
                ELSE IF v[1] = "Object"
                THEN Struct("struct", ArenaLookup(interners.iobject, v[2]), ty[2])
                ELSE Err("invalid_type")
          [] ty[1] = "enum" ->
                IF v[1] = "String" THEN DeserializeString(interners, v[2], ty)
                ELSE IF v[1] = "Object"
                THEN LET object == ArenaLookup(interners.iobject, v[2])
                     IN  IF ~SingleEntry(object) THEN Err("invalid_length")
                         ELSE LET variant == VariantNamed(ty,
                                    ArenaLookup(interners.string, object[1][1]))
                              IN  IF ~IsSome(variant) THEN Err("unknown_variant")
                                  ELSE Content(variant[2], object[1][2])
                ELSE Err("invalid_type")


\* IValue::to_value::<T> of a handle that an intern call or a successful
\* from_value returned, T being the type ty
ToValueCall(m, ty) ==
    /\ pc = "idle"
    /\ call' = <<"to_value", ty, m[1], m[2]>>
    /\ ret' = Deserialize(Self, m[2], ty)
    /\ UNCHANGED ctxVars
    /\ UNCHANGED deltaVars
    /\ UNCHANGED concVars

----------------------------------------------------------------------------
(* from_value of a value of a type, then to_value into that type *)

TBool == <<"bool">>
TI64 == <<"i64">>
TU64 == <<"u64">>
TStr == <<"str">>
TOption(ty) == <<"option", ty>>
TSeq(ty) == <<"seq", ty>>
TMap(k, ty) == <<"map", k, ty>>

\* struct Rec { b: i64, a: Vec<bool>, aa: Option<String> }
TRec == <<"struct", << <<Sb, TI64>>, <<Sa, TSeq(TBool)>>, <<Saa, TOption(TStr)>> >>>>

\* enum Shape { aa, b(u64), a(u64, String), ""{ b: u64, a: Option<bool> } }
TShape ==
    <<"enum", <<Saa, "unit">>, <<Sb, "newtype", TU64>>,
              <<Sa, "tuple", <<TU64, TStr>>>>,
              <<<<>>, "struct", << <<Sb, TU64>>, <<Sa, TOption(TBool)>> >>>>>>

\* enum Key { b, a } and struct Name(String)
TKey == <<"enum", <<Sb, "unit">>, <<Sa, "unit">>>>
TName == <<"newtype_struct", TStr>>

\* the pairs of a type and a value of it
TypedInputs ==
    {<<TBool, <<"bool", TRUE>>>>,
     <<TI64, <<"i64", 1>>>>, <<TI64, <<"i64", 0 - 1>>>>, <<TU64, <<"u64", 1>>>>,
     <<<<"i128">>, <<"i128", 1>>>>,
     <<<<"f64">>, <<"f64", 3>>>>, <<<<"f32">>, <<"f32", Infinity>>>>,
     <<<<"f64">>, <<"f64", NaN>>>>,
     <<TStr, <<"str", Sb>>>>,
     <<TOption(TStr), <<"some", <<"str", Sa>>>>>>, <<TOption(TStr), <<"none">>>>,
     <<TOption(TOption(TBool)), <<"some", <<"none">>>>>>,
     <<TOption(TOption(TBool)), <<"some", <<"some", <<"bool", FALSE>>>>>>>>,
     <<TOption(<<"unit">>), <<"some", <<"unit">>>>>>,
     <<TSeq(TStr), <<"seq", << <<"str", Sb>>, <<"str", Sa>> >>>>>>,
     <<TSeq(TOption(TU64)), <<"seq", << <<"none">>, <<"some", <<"u64", 1>>>> >>>>>>,
     <<TMap(TStr, TU64), <<"map", << <<<<"str", Sb>>, <<"u64", 1>>>>,
                                    <<<<"str", Sa>>, <<"u64", 2>>>> >>>>>>,
     <<TMap(TKey, TStr), <<"map", << <<<<"unit_variant", Sb>>, <<"str", Sa>>>>,
                                    <<<<"unit_variant", Sa>>, <<"str", Sb>>>> >>>>>>,
     <<TMap(TName, TBool),
       <<"map", << <<<<"newtype_struct", <<"str", Sb>>>>, <<"bool", TRUE>>>>,
                   <<<<"newtype_struct", <<"str", Sa>>>>, <<"bool", FALSE>>>> >>>>>>,
     <<TRec, <<"struct", << <<Sb, <<"i64", 0 - 1>>>>,
                           <<Sa, <<"seq", << <<"bool", TRUE>> >>>>>>,
                           <<Saa, <<"none">>>> >>>>>>,
     <<TShape, <<"unit_variant", Saa>>>>,
     <<TShape, <<"newtype_variant", Sb, <<"u64", 1>>>>>>,
     <<TShape, <<"tuple_variant", Sa, << <<"u64", 1>>, <<"str", Sb>> >>>>>>,
     <<TShape, <<"struct_variant", <<>>,
                 << <<Sb, <<"u64", 1>>>>, <<Sa, <<"some", <<"bool", TRUE>>>>>> >>>>>>}

NextRound ==
    \/ \E c \in TypedInputs : FromValue(c[2])
    \/ \E c \in TypedInputs : \E m \in minted : c[2] = m[1] /\ ToValueCall(m, c[1])

SpecRound == Init /\ [][NextRound]_vars

----------------------------------------------------------------------------
(* C16 *)

\* x == y of two values of one type: floats as IEEE compares them (NaN is
\* not equal to itself), maps whatever the order of their entries
RECURSIVE ValueEq(_, _)
ValueEq(x, y) ==
    LET All(xs, ys) ==
            /\ Len(xs) = Len(ys)
            /\ \A i \in 1..Len(xs) : ValueEq(xs[i], ys[i])
        Fields(xs, ys) ==
            /\ Len(xs) = Len(ys)
            /\ \A i \in 1..Len(xs) :
                  xs[i][1] = ys[i][1] /\ ValueEq(xs[i][2], ys[i][2])
        Within(xs, ys) ==
            \A i \in 1..Len(xs) : \E j \in 1..Len(ys) :
                xs[i][1] = ys[j][1] /\ ValueEq(xs[i][2], ys[j][2])
    IN  IF x[1] # y[1] THEN FALSE
        ELSE CASE x[1] \in {"f32", "f64"} -> x[2] = y[2] /\ x[2] # NaN
               [] x[1] \in {"some", "newtype_struct"} -> ValueEq(x[2], y[2])
               [] x[1] = "newtype_variant" -> x[2] = y[2] /\ ValueEq(x[3], y[3])
               [] x[1] = "seq" -> All(x[2], y[2])
               [] x[1] = "tuple_variant" -> x[2] = y[2] /\ All(x[3], y[3])
               [] x[1] = "map" ->
                    Len(x[2]) = Len(y[2]) /\ Within(x[2], y[2]) /\ Within(y[2], x[2])
               [] x[1] = "struct" -> Fields(x[2], y[2])
               [] x[1] = "struct_variant" -> x[2] = y[2] /\ Fields(x[3], y[3])
               [] OTHER -> x = y

\* a value of the type may be encoded as Null
RECURSIVE MayBeNull(_)
MayBeNull(ty) ==
    \/ ty[1] \in {"unit", "option"}
    \/ ty[1] = "newtype_struct" /\ MayBeNull(ty[2])

\* the types built of integers of at most 64 bits and of options of what is
\* never encoded as Null
RECURSIVE Lossless(_)
Lossless(ty) ==
    LET All(tys) == \A i \in 1..Len(tys) : Lossless(tys[i])
        Fields(fields) == \A f \in 1..Len(fields) : Lossless(fields[f][2])
    IN  CASE ty[1] \in {"i128", "u128"} -> FALSE
          [] ty[1] = "option" -> ~MayBeNull(ty[2]) /\ Lossless(ty[2])
          [] ty[1] \in {"newtype_struct", "seq"} -> Lossless(ty[2])
          [] ty[1] \in {"tuple", "tuple_struct"} -> All(ty[2])
          [] ty[1] = "map" -> Lossless(ty[3])
          [] ty[1] = "struct" -> Fields(ty[2])
          [] ty[1] = "enum" ->
                (\A i \in 2..Len(ty) :
                    \/ ty[i][2] = "unit"
                    \/ ty[i][2] = "newtype" /\ Lossless(ty[i][3])
                    \/ ty[i][2] = "tuple" /\ All(ty[i][3])
                    \/ ty[i][2] = "struct" /\ Fields(ty[i][3]))
          [] OTHER -> TRUE

\* C16 as it is stated: from_value of a value of the types named succeeds,
\* and to_value of its handle into the type of the value succeeds and gives
\* a value equal to it.
C16_RoundTripOfEveryValue ==
    /\ call[1] = "from_value" => IsSome(ret)
    /\ call[1] = "to_value" => IsSome(ret) /\ ValueEq(ret[2], call[3])

\* C16, amended: the same of every value that is equal to itself (it holds
\* no NaN) and whose type has integers of at most 64 bits and no option of a
\* type that may be encoded as Null (an option, the unit, a newtype of them).
C16_RoundTrip ==
    /\ (/\ call[1] = "from_value"
        /\ \E c \in TypedInputs : c[2] = call[2] /\ Lossless(c[1]))
       => IsSome(ret)
    /\ (/\ call[1] = "to_value"
        /\ Lossless(call[2])
        /\ ValueEq(call[3], call[3]))
       => IsSome(ret) /\ ValueEq(ret[2], call[3])

\* a map keyed by the variants of an enum came back equal to the map given,
\* its entries in another order
C16_Witness ==
    /\ call[1] = "to_value"
    /\ call[2] = TMap(TKey, TStr)
    /\ IsSome(ret)
    /\ ret[2] # call[3]
    /\ ValueEq(ret[2], call[3])

----------------------------------------------------------------------------
(* to_value into tuples and enums of handles of arrays and objects *)

\* (u64, u64), struct Pair(u64, u64), struct Empty() and
\* enum Choice { a(u64, u64), b, aa(u64) }
TTuple == <<"tuple", <<TU64, TU64>>>>
TPair == <<"tuple_struct", <<TU64, TU64>>>>
TEmpty == <<"tuple_struct", <<>>>>
TChoice ==
    <<"enum", <<Sa, "tuple", <<TU64, TU64>>>>, <<Sb, "unit">>, <<Saa, "newtype", TU64>>>>

DecodeTypes == {TTuple, TPair, TEmpty, TChoice}

\* arrays of every length up to one more than the arity, objects of no, one
\* and two entries, and a value of every other kind
DecodeInputs ==
    {JArr(<<>>), JArr(<<JPosInt(1)>>), JArr(<<JPosInt(1), JPosInt(2)>>),
     JArr(<<JPosInt(1), JPosInt(2), JPosInt(1)>>),
     JObj(<<>>),
     JObj(<<<<Sa, JArr(<<JPosInt(1), JPosInt(2)>>)>>>>),
     JObj(<<<<Sa, JArr(<<JPosInt(1)>>)>>>>),
     JObj(<<<<Sa, JArr(<<JPosInt(1), JPosInt(2), JPosInt(1)>>)>>>>),
     JObj(<<<<Saa, JPosInt(1)>>>>),
     JObj(<<<<Sa, JArr(<<JPosInt(1), JPosInt(2)>>)>>, <<Sb, JNull>>>>),
     JStr(Sb), JStr(Sa), JNull, JBool(TRUE), JPosInt(1), JFloat(1)}

NextDecode ==
    \/ \E source \in DecodeInputs : Intern(source)
    \/ \E ty \in DecodeTypes : \E m \in minted : ToValueCall(m, ty)

SpecDecode == Init /\ [][NextDecode]_vars

(* C19 *)

\* the arity of the tuple variant of the enum that the only key of the
\* object names, None when it names no tuple variant
TupleVariantArity(ty, o) ==
    IF Len(o) # 1 THEN None
    ELSE IF \E i \in 2..Len(ty) : ty[i][1] = o[1][1] /\ ty[i][2] = "tuple"
    THEN Some(Len(ty[CHOOSE i \in 2..Len(ty) : ty[i][1] = o[1][1]][3]))
    ELSE None

\* C19: to_value into a tuple, a tuple struct or a tuple variant of arity N
\* of the handle of an array whose length is not N, and to_value into an enum
\* of the handle of an object that has not exactly one entry, give the error
\* invalid_length and no value; to_value into an enum of the handle of a value
\* that is neither a String nor an Object gives no value.
C19_LengthErrors ==
    call[1] = "to_value" =>
        LET ty == call[2]
            source == call[3]
        IN  /\ (/\ ty[1] \in {"tuple", "tuple_struct"}
                /\ source[1] = "Array"
                /\ Len(source[2]) # Len(ty[2]))
               => ret = Err("invalid_length")
            /\ (/\ ty[1] = "enum"
                /\ source[1] = "Object"
                /\ Len(source[2]) # 1)
               => ret = Err("invalid_length")
            /\ (/\ ty[1] = "enum"
                /\ source[1] = "Object"
                /\ IsSome(TupleVariantArity(ty, source[2]))
                /\ source[2][1][2][1] = "Array"
                /\ Len(source[2][1][2][2]) # TupleVariantArity(ty, source[2])[2])
               => ret = Err("invalid_length")
            /\ (/\ ty[1] = "enum"
                /\ source[1] \notin {"String", "Object"})
               => ~IsSome(ret)

\* an object of two entries was refused as an enum for its length, after an
\* array one too long was interned
C19_Witness ==
    /\ call[1] = "to_value"
    /\ call[2] = TChoice
    /\ call[3][1] = "Object"
    /\ Len(call[3][2]) = 2
    /\ ret = Err("invalid_length")
    /\ \E m \in minted : m[1][1] = "Array" /\ Len(m[1][2]) = 3

----------------------------------------------------------------------------
(* C21 *)

\* id 0 of the string arena exists and is the empty string
EmptyStringAtZero(interners) ==
    Len(interners.string) >= 1 /\ ArenaLookup(interners.string, 0) = <<>>

\* C21: in the context, new or after any intern calls, and in the
\* destination of optimize and optimize_once, id 0 of the string arena is the
\* empty string; the string arena of a new context has length 1 and its
\* array and object arenas have length 0.
C21_EmptyStringInvariant ==
    /\ EmptyStringAtZero(Self)
    /\ Returned => EmptyStringAtZero(Dest)
    /\ (calls = 0 /\ pc = "idle") =>
            Len(string) = 1 /\ Len(iarray) = 0 /\ Len(iobject) = 0

----------------------------------------------------------------------------
(* C22 *)

\* C22: when optimize or optimize_once returned Some((dest, m)), the string
\* arena of dest holds the strings of the source and no other, in strictly
\* ascending order of length and then of bytes; the string of id i in the
\* source has the id m.string.at(i) in dest; and count_remapped_strings() is
\* the number of the source's string ids that m changes.
C22_CanonicalStringOrder ==
    Returned =>
        /\ Len(Dest.string) = Len(string)
        /\ Range(Dest.string) = Range(string)
        /\ Ascending(Dest.string, CmpInt)
        /\ \A i \in 0..(Len(string) - 1) :
              /\ At(Mapping.string, i) \in 0..(Len(Dest.string) - 1)
              /\ ArenaLookup(Dest.string, At(Mapping.string, i))
                    = ArenaLookup(string, i)
        /\ CountRemapped(Mapping.string)
              = Cardinality({i \in 0..(Len(string) - 1) : At(Mapping.string, i) # i})

\* optimize returned a destination in which each of three strings has a new
\* id, a string of two bytes after a string of one
C22_Witness ==
    /\ Returned
    /\ pc = "done"
    /\ Len(string) = 3
    /\ CountRemapped(Mapping.string) = 3
    /\ \E i \in 1..2 : Len(Dest.string[i]) = 1 /\ Len(Dest.string[i + 1]) = 2

----------------------------------------------------------------------------
(* C23 *)

\* the string passes and the array and object passes that the optimize call
\* has started; each is one step of the model, so a pass that has started
\* has run to its end
StringPasses == call[2]
NoStringPasses == call[3]

\* C23: an optimize(Some(n)) call, running or finished, has made at most n
\* turns of its loop and started at most n array and object passes; with a
\* limit other than Some(0) it has run the string pass once; whatever it holds
\* is the whole result of the passes it ran, as large as the source; and
\* optimize(Some(0)) has run no pass and returned None.
C23_IterationLimit ==
    pc \in {"loop", "done"} =>
        /\ \A n \in 0..MaxLimit :
              limit = Some(n) => iter <= n /\ NoStringPasses <= n
        /\ limit # Some(0) => StringPasses = 1
        /\ limit = Some(0) =>
              /\ pc = "done"
              /\ StringPasses = 0
              /\ NoStringPasses = 0
              /\ optimized = None
        /\ IsSome(optimized) =>
              /\ Len(optimized[2].ctx.string) = Len(string)
              /\ Len(optimized[2].ctx.iarray) = Len(iarray)
              /\ Len(optimized[2].ctx.iobject) = Len(iobject)
              /\ RefIntegrity(optimized[2].ctx)

\* optimize(Some(1)) stopped at its limit after one array and object pass
\* that changed the arenas, on a context a second pass would change again
C23_Witness ==
    /\ pc = "done"
    /\ limit = Some(1)
    /\ iter = 1
    /\ NoStringPasses = 1
    /\ IsSome(optimized)
    /\ IsSome(OptimizeOnceNoStrings(optimized[2].ctx))

----------------------------------------------------------------------------
(* optimize run to its end on contexts of nested arrays and objects *)

\* arrays in arrays, arrays in objects in arrays, objects in arrays in
\* objects, their strings met in the order b, a
NestedInputs ==
    {JStr(Sb),
     JArr(<<JStr(Sb), JStr(Sa)>>),
     JArr(<<JArr(<<JStr(Sb)>>), JArr(<<JStr(Sa)>>)>>),
     JArr(<<JArr(<<JArr(<<JStr(Sb)>>)>>), JArr(<<JStr(Sa)>>)>>),
     JArr(<<JObj(<<<<Sb, JArr(<<JStr(Sb)>>)>>>>), JObj(<<<<Sa, JArr(<<>>)>>>>)>>),
     JObj(<<<<Sb, JArr(<<JObj(<<<<Sb, JNull>>>>), JObj(<<>>)>>)>>,
            <<Sa, JArr(<<JObj(<<>>)>>)>>>>),
     JObj(<<<<Sa, JObj(<<<<Sa, JArr(<<JStr(Sb)>>)>>>>)>>>>)}

NextNested ==
    \/ \E source \in NestedInputs : Intern(source)
    \/ \E source \in NestedInputs : InternRef(source)
    \/ \E lim \in Limits : OptimizeBegin(lim)
    \/ OptimizeIter

\* the loop of optimize is sequential code: a turn that can be made is made
SpecNested == Init /\ [][NextNested]_vars /\ WF_vars(OptimizeIter)

(* C24 *)

\* C24: an optimize(None) call that has reached its loop finishes: an array
\* and object pass on what it holds (on the context when it holds nothing)
\* returns None, the identity mapping, after the turns made.
C24_Termination ==
    (pc = "loop" /\ limit = None)
        ~> (/\ pc = "done"
            /\ ~IsSome(OptimizeOnceNoStrings(
                    IF IsSome(optimized) THEN optimized[2].ctx ELSE Self)))

\* optimize(None) finished after two array and object passes that changed
\* the arenas and a third that did not, on a context of arrays and objects
C24_Witness ==
    /\ pc = "done"
    /\ limit = None
    /\ iter = 2
    /\ NoStringPasses = 3
    /\ Len(iarray) >= 1
    /\ Len(iobject) >= 1

----------------------------------------------------------------------------
(* C25 *)

\* C25: when optimize or optimize_once returned Some((dest, m)),
\* m.is_identity() is false and one at least of count_remapped_strings(),
\* count_remapped_arrays() and count_remapped_objects() is greater than 0,
\* also when m is the composition of the mappings of several passes.
C25_MappingNeverTrivial ==
    Returned =>
        /\ ~MappingIsIdentity(Mapping)
        /\ \/ CountRemapped(Mapping.string) > 0
           \/ CountRemapped(Mapping.iarray) > 0
           \/ CountRemapped(Mapping.iobject) > 0

\* optimize returned the composition of the mappings of the string pass and
\* of two array and object passes that changed the arenas
C25_Witness ==
    /\ Returned
    /\ pc = "done"
    /\ iter = 2
    /\ ~ImplIsIdentity(Mapping.string)
    /\ CountRemapped(Mapping.iarray) > 0

----------------------------------------------------------------------------
(* C26 *)

\* m is a bijection of 0..(n - 1) onto itself
IsBijection(m, n) ==
    /\ ImplLen(m) = n
    /\ \A i \in 0..(n - 1) : At(m, i) \in 0..(n - 1)
    /\ \A i, j \in 0..(n - 1) : At(m, i) = At(m, j) => i = j

\* C26: each of the string, array and object components of a mapping that
\* optimize or optimize_once returned is a bijection of the ids of the
\* source arena onto themselves, and each arena of the destination has as
\* many entries as the arena of the source.
C26_MappingsArePermutations ==
    Returned =>
        /\ IsBijection(Mapping.string, Len(string))
        /\ IsBijection(Mapping.iarray, Len(iarray))
        /\ IsBijection(Mapping.iobject, Len(iobject))
        /\ Len(Dest.string) = Len(string)
        /\ Len(Dest.iarray) = Len(iarray)
        /\ Len(Dest.iobject) = Len(iobject)

\* optimize returned the composition of the mapping of the string pass and of
\* the mapping of an array and object pass, which moves two ids at least of
\* each arena
C26_Witness ==
    /\ Returned
    /\ pc = "done"
    /\ CountRemapped(Mapping.string) >= 2
    /\ CountRemapped(Mapping.iarray) >= 2
    /\ CountRemapped(Mapping.iobject) >= 2

----------------------------------------------------------------------------
(* C27 *)

\* a step of from_value that returns an error
FromValueFails ==
    /\ calls' = calls + 1
    /\ call'[1] = "from_value"
    /\ ret' = <<"Err", "custom">>

Extends(arena, before) ==
    /\ Len(arena) >= Len(before)
    /\ \A i \in 1..Len(before) : arena[i] = before[i]

----------------------------------------------------------------------------
(* C28 *)

\* C28: interning lookup(h) into the context of h returns h, for every handle
\* h that intern, intern_ref or from_value (of finite floats) produced; so
\* from_value of a signed integer that is not negative gives the handle that
\* interning the JSON number of that value gives.
C28_CanonicalHandles ==
    \A m \in minted :
        ~LookupPanics(Self, m[2]) => From(Self, Lookup(Self, m[2])).v = m[2]

----------------------------------------------------------------------------
(* detail/ser.rs : the methods of SerializeObject, called one by one.       *)
(* call holds the last method called, whether a key was pending when it was *)
(* called, the SerializeObject it left, and the number of serialize_value   *)
(* calls that returned Ok; ret holds what the method returned.              *)

MaxMapCalls == 5    \* calls of methods on one SerializeObject

\* Ok(()) of a method
OkUnit == <<"Ok">>

\* ValueSerializer::serialize_map
SerializeMap == [object |-> <<>>, key |-> None]

\* SerializeObject::serialize_key
SerializeObjectKey(interners, self, key) ==
    IF IsSome(self.key) THEN [ctx |-> interners, self |-> self, r |-> Panic]
    ELSE LET k == SerializeKey(interners, key)
         IN  IF IsSome(k.r)
             THEN [ctx |-> k.ctx, self |-> [self EXCEPT !.key = Some(k.r[2])],
                   r |-> OkUnit]
             ELSE [ctx |-> k.ctx, self |-> self, r |-> Err("custom")]

\* serialize_value that reads the key and leaves it where it is
SerializeObjectValueKeepsKey(interners, self, value) ==
    IF ~IsSome(self.key) THEN {[ctx |-> interners, self |-> self, r |-> Panic]}
    ELSE {IF IsSome(out.r)
          THEN [ctx |-> out.ctx,
                self |-> [self EXCEPT
                            !.object = Append(@, <<self.key[2], out.r[2]>>)],
                r |-> OkUnit]
          ELSE [ctx |-> out.ctx, self |-> self, r |-> Err("custom")] :
            out \in Serialize(interners, value)}

\* SerializeObject::serialize_value : the key is taken before the value is
\* serialized
SerializeObjectValue(interners, self, value) ==
    IF ~IsSome(self.key) THEN {[ctx |-> interners, self |-> self, r |-> Panic]}
    ELSE {IF IsSome(out.r)
          THEN [ctx |-> out.ctx,
                self |-> [object |-> Append(self.object, <<self.key[2], out.r[2]>>),
                          key |-> None],
                r |-> OkUnit]
          ELSE [ctx |-> out.ctx, self |-> [self EXCEPT !.key = None],
                r |-> Err("custom")] :
            out \in Serialize(interners, value)}

\* SerializeObject::end
SerializeObjectEndCall(interners, self) ==
    IF IsSome(self.key) THEN {[ctx |-> interners, self |-> self, r |-> Panic]}
    ELSE {[ctx |-> out.ctx, self |-> self, r |-> out.r] :
            out \in SerializeObjectEnd(interners, self.object)}

\* the keys and the values given to the methods: a key and a value of each
\* kind are no key and no value
MapKeys == {<<"str", Sa>>, <<"str", Sb>>, <<"some", <<"char", 1>>>>, <<"u64", 1>>}
MapValues ==
    {<<"u64", 1>>, <<"str", Sb>>, <<"i128", 1>>, <<"seq", << <<"str", Sa>> >>>>}

InitMap ==
    /\ string = <<>>
    /\ iarray = <<>>
    /\ iobject = <<>>
    /\ minted = {}
    /\ calls = 0
    /\ pc = "idle"
    /\ limit = None
    /\ iter = 0
    /\ optimized = None
    /\ stream = "none"
    /\ fold_acc = None
    /\ unfold_acc = None
    /\ sent = <<>>
    /\ wire = <<>>
    /\ received = <<>>
    /\ call = [op |-> "serialize_map", pending |-> FALSE, self |-> SerializeMap,
               pairs |-> 0]
    /\ ret = None
    /\ threads = <<>>
    /\ pass = None

\* the SerializeObject is there to call: end has not consumed it and no
\* method has panicked
MapOpen == call.op # "end" /\ ret # Panic /\ calls < MaxMapCalls

\* what a method's call leaves
MapReturns(op, out) ==
    /\ string' = out.ctx.string
    /\ iarray' = out.ctx.iarray
    /\ iobject' = out.ctx.iobject
    /\ call' = [op |-> op, pending |-> IsSome(call.self.key), self |-> out.self,
                pairs |-> IF op = "serialize_value" /\ out.r = OkUnit
                          THEN call.pairs + 1 ELSE call.pairs]
    /\ ret' = out.r
    /\ calls' = calls + 1
    /\ UNCHANGED <<minted, pc, limit, iter, optimized>>
    /\ UNCHANGED <<deltaVars, threads, pass>>

MapSerializeKey(key) ==
    /\ MapOpen
    /\ MapReturns("serialize_key", SerializeObjectKey(Self, call.self, key))

MapSerializeValue(value) ==
    /\ MapOpen
    /\ \E out \in SerializeObjectValue(Self, call.self, value) :
          MapReturns("serialize_value", out)

MapEnd ==
    /\ MapOpen
    /\ \E out \in SerializeObjectEndCall(Self, call.self) : MapReturns("end", out)

NextMap ==
    \/ \E key \in MapKeys : MapSerializeKey(key)
    \/ \E value \in MapValues : MapSerializeValue(value)
    \/ MapEnd

SpecMap == InitMap /\ [][NextMap]_vars

----------------------------------------------------------------------------
(* C29 *)

\* C29: over the calls of serialize_key, serialize_value and end on one
\* SerializeObject, a key is pending exactly from a serialize_key that
\* returned Ok to the next serialize_value; serialize_key with a key pending,
\* serialize_value with none, and end with a key pending panic, and no other
\* call does; an end that does not panic interns an object of one entry for
\* each serialize_value that returned Ok.
C29_MapProtocol ==
    /\ call.op = "serialize_map" => ~IsSome(call.self.key)
    /\ call.op # "serialize_map" =>
        /\ ret = Panic <=>
              \/ call.op = "serialize_key" /\ call.pending
              \/ call.op = "serialize_value" /\ ~call.pending
              \/ call.op = "end" /\ call.pending
        /\ ret # Panic =>
              /\ call.op = "serialize_key" =>
                    (IsSome(call.self.key) <=> ret = OkUnit)
              /\ call.op = "serialize_value" => ~IsSome(call.self.key)
              /\ call.op = "end" =>
                    /\ IsSome(ret)
                    /\ ret[2][1] = "Object"
                    /\ Len(ArenaLookup(iobject, ret[2][2])) = call.pairs

\* end interned an object of two entries after two pairs of a key and a value
C29_Witness ==
    /\ call.op = "end"
    /\ IsSome(ret)
    /\ call.pairs = 2
    /\ Len(ArenaLookup(iobject, ret[2][2])) = 2

----------------------------------------------------------------------------
(* detail/mapping.rs : reverse, then compose calls on what it returned.     *)
(* call holds the last call and its RevMappingImpl, ret the MappingImpl the *)
(* calls have made so far, calls the number of compose calls.               *)

MaxComposes == 3    \* compose calls on one MappingImpl

\* the RevMappingImpl values over n ids: the ids in some order
RevMappingsOf(n) == PermsOf([i \in 1..n |-> i - 1])

InitReverse ==
    /\ string = <<>>
    /\ iarray = <<>>
    /\ iobject = <<>>
    /\ minted = {}
    /\ calls = 0
    /\ pc = "idle"
    /\ limit = None
    /\ iter = 0
    /\ optimized = None
    /\ stream = "none"
    /\ fold_acc = None
    /\ unfold_acc = None
    /\ sent = <<>>
    /\ wire = <<>>
    /\ received = <<>>
    /\ \E n \in 0..MaxIds :
          call \in {[op |-> "reverse", rev |-> rev] : rev \in RevMappingsOf(n)}
    /\ ret = None
    /\ threads = <<>>
    /\ pass = None

\* RevMappingImpl::reverse
CallReverse ==
    /\ ret = None
    /\ ret' = Some(Reverse(call.rev))
    /\ UNCHANGED <<ctxVars, deltaVars, call, threads, pass>>

\* MappingImpl::compose of the mapping made so far with the reverse of rev
CallComposeReverse(rev) ==
    /\ IsSome(ret)
    /\ calls < MaxComposes
    /\ Len(rev) = ImplLen(ret[2])
    /\ ret' = Some(ImplCompose(ret[2], Reverse(rev)))
    /\ call' = [op |-> "compose", rev |-> rev]
    /\ calls' = calls + 1
    /\ UNCHANGED <<string, iarray, iobject, minted, pc, limit, iter, optimized>>
    /\ UNCHANGED <<deltaVars, threads, pass>>

NextReverse ==
    \/ CallReverse
    \/ \E n \in 0..MaxIds : \E rev \in RevMappingsOf(n) : CallComposeReverse(rev)

SpecReverse == InitReverse /\ [][NextReverse]_vars

----------------------------------------------------------------------------
(* C30 *)

\* C30: for a MappingImpl that reverse returned and compose calls combined,
\* is_identity() is true exactly when at(i) = i for every i below len(), and
\* count_remapped() is 0 exactly when is_identity() is true.
C30_IsIdentityExact ==
    IsSome(ret) =>
        /\ ImplIsIdentity(ret[2])
              <=> \A i \in 0..(ImplLen(ret[2]) - 1) : At(ret[2], i) = i
        /\ CountRemapped(ret[2]) = 0 <=> ImplIsIdentity(ret[2])

====
